---- MODULE Spec2Model ----
(***************************************************************************)
(* Token-launch detection and risk scoring: the token classifier           *)
(* (is_actual_token), the contract inspector (analyze_contract_code) and   *)
(* the three risk engines (comprehensive_analysis,                         *)
(* analyze_contract_risk_enhanced, analyze_contract_risk).                 *)
(*                                                                         *)
(* Conventions of the model                                                *)
(*  - bytes are integers 0..255, text is a sequence of one-character       *)
(*    strings, so that `in` and re.search are real substring searches;     *)
(*  - a Python dict is a TLA+ function, d.get(k, default) is Get;          *)
(*  - a risk score is counted in hundredths (0.2 is 20);                   *)
(*    the sums are exact decimals, the representation error of the       *)
(*    binary floats the code adds (below 10^-15) is not modelled;         *)
(*  - wei amounts and token supplies exceed 32 bits: they are numbers of   *)
(*    three limbs in base 10^9, most significant first.                    *)
(***************************************************************************)
EXTENDS Integers, Sequences, FiniteSets, TLC

VARIABLES
    code,   \* the bytecode the ledger holds at the analysed address
    cls,    \* the last answer of is_actual_token, with the call's inputs
    ca,     \* the last answer of analyze_contract_code, with the call's inputs
    res,    \* the last answer of a risk engine, with the call's inputs
    table,  \* the rows of the token_launches table, in insertion order
    hist,   \* per (chain, contract_address): the last call of
            \* store_token_launch and the last one the database accepted
    cfg,    \* the configuration the monitor process was constructed with
    monitoring,    \* monitor.monitoring
    req,    \* the HTTP requests being handled, per handler thread
    loops,  \* the monitoring threads started so far
    tokens_found,  \* monitor.tokens_found, oldest first
    clock,  \* time.time(), in units of 0.1 s
    lim,    \* the EtherscanAPI client and its callers
    ver,    \* the last verification lookup, with the call's inputs
    info    \* the last answer of get_token_info, with the call's inputs

analysisVars == <<code, cls, ca, res>>
storeVars == <<table, hist>>
watchVars == <<cfg, monitoring, req, loops, tokens_found>>
limVars == <<clock, lim>>
lookupVars == <<ver, info>>

vars == <<analysisVars, storeVars, watchVars, limVars, lookupVars>>

\* A call that has not been made.
None == [made |-> FALSE]

\* The components a specification leaves out stay as constructed.
StoreIdle == table = <<>> /\ hist = <<>>
WatchIdle ==
    /\ cfg = None
    /\ monitoring = FALSE
    /\ req = <<>>
    /\ loops = <<>>
    /\ tokens_found = <<>>
LimIdle == clock = 0 /\ lim = None
LookupIdle == ver = None /\ info = None
AnalysisIdle == code = <<>> /\ cls = None /\ ca = None /\ res = None

----------------------------------------------------------------------------
(* Text and bytes *)

Min(a, b) == IF a < b THEN a ELSE b
Max(a, b) == IF a > b THEN a ELSE b

\* Python's `pat in s` for sequences (str in str, bytes in bytes).
Contains(pat, s) ==
    \E i \in 0..(Len(s) - Len(pat)) : \A j \in 1..Len(pat) : s[i + j] = pat[j]

\* s[:n]
Take(s, n) == SubSeq(s, 1, Min(n, Len(s)))

\* s[n:]
Drop(s, n) == SubSeq(s, n + 1, Len(s))

HexDigits == <<"0","1","2","3","4","5","6","7","8","9","a","b","c","d","e","f">>

\* bytes.hex(): two lowercase digits per byte.
Hex(bytes) ==
    [i \in 1..(2 * Len(bytes)) |->
        IF i % 2 = 1 THEN HexDigits[(bytes[(i + 1) \div 2] \div 16) + 1]
                     ELSE HexDigits[(bytes[i \div 2] % 16) + 1]]

\* d.get(k, default)
Get(d, k, default) == IF k \in DOMAIN d THEN d[k] ELSE default

\* A collaborator's answer: it raises, or it returns data.
Raises(msg) == [raises |-> TRUE, msg |-> msg]
Returns(data) == [raises |-> FALSE, data |-> data]

----------------------------------------------------------------------------
(* Bytecode.  A bytecode is its leading bytes `body` followed by `pad`     *)
(* filler bytes 0xfe.  No selector or fingerprint contains the digits "fe" *)
(* or ends in "f", so no match can touch the filler: searches run on the   *)
(* body, lengths count the filler.                                         *)

CodeLen(c) == Len(c.body) + c.pad
CodeHex(c) == Hex(c.body)

\* The byte strings the bytecodes of the model are assembled from.
Chunk(name) ==
    CASE name = "balanceOf"   -> <<112,160,130,49>>
      [] name = "transfer"    -> <<169,5,156,187>>
      [] name = "approve"     -> <<9,94,167,179>>
      [] name = "allowance"   -> <<221,98,237,62>>
      [] name = "totalSupply" -> <<24,22,13,221>>
      [] name = "name"        -> <<6,253,222,3>>
      [] name = "symbol"      -> <<149,216,155,65>>
      [] name = "decimals"    -> <<49,60,229,103>>
      [] name = "mint"        -> <<64,193,15,25>>
      [] name = "burn"        -> <<66,150,108,104>>
      [] name = "pause"       -> <<132,86,203,89>>
      [] name = "renounce"    -> <<113,80,24,166>>
      [] name = "proxy1"      -> <<54,96,0,128,55>>
      [] name = "proxy2"      -> <<54,16,61,96,28>>
      [] name = "honeypot1"   -> <<141,165,203,91,0,0,0,0>>
      [] name = "honeypot2"   -> <<99,145,61,41,20>>
      [] name = "push"        -> <<96,128,96,64,82>>

ChunkOrder ==
    <<"push", "balanceOf", "transfer", "approve", "allowance", "totalSupply",
      "name", "symbol", "decimals", "mint", "burn", "pause", "renounce",
      "proxy1", "proxy2", "honeypot1", "honeypot2">>

RECURSIVE AssembleFrom(_, _)
AssembleFrom(i, S) ==
    IF i > Len(ChunkOrder) THEN <<>>
    ELSE (IF ChunkOrder[i] \in S THEN Chunk(ChunkOrder[i]) ELSE <<>>)
         \o AssembleFrom(i + 1, S)

\* The bytecode made of the chunks of S, followed by pad filler bytes.
Assemble(S, pad) == [body |-> AssembleFrom(1, S), pad |-> pad]

\* An externally-owned account has no code.
EmptyCode == [body |-> <<>>, pad |-> 0]

Erc20Names ==
    {"balanceOf", "transfer", "approve", "allowance", "totalSupply", "name",
     "symbol", "decimals"}

----------------------------------------------------------------------------
(* TokenClassifier: EnhancedTokenMonitor.is_actual_token *)

erc20_signatures ==
    << <<"0","x","7","0","a","0","8","2","3","1">>,   \* balanceOf(address)
       <<"0","x","a","9","0","5","9","c","b","b">>,   \* transfer(address,uint256)
       <<"0","x","0","9","5","e","a","7","b","3">>,   \* approve(address,uint256)
       <<"0","x","d","d","6","2","e","d","3","e">>,   \* allowance(address,address)
       <<"0","x","1","8","1","6","0","d","d","d">>,   \* totalSupply()
       <<"0","x","0","6","f","d","d","e","0","3">>,   \* name()
       <<"0","x","9","5","d","8","9","b","4","1">>,   \* symbol()
       <<"0","x","3","1","3","c","e","5","6","7">> >> \* decimals()

\* The least number of ERC-20 selectors of a token.
MinErc20Functions == 6

\* The length an error text is cut to in a reason.
ReasonErrLen == 50

\* erc20_functions_found: how many of the selectors occur in code_hex.
Erc20FunctionsFound(code_hex) ==
    Cardinality({i \in 1..Len(erc20_signatures) :
                    Contains(Drop(erc20_signatures[i], 2), code_hex)})

\* Mutant: the threshold off by one (5 selectors pass the static gate).
TooFewFunctionsOffByOne(found) == found < MinErc20Functions - 1

\* The selector count is below the least number of a token.
TooFewFunctions(found) == found < MinErc20Functions

\* Both probes returned data.
ProbesSucceeded(total_supply_call, decimals_call) ==
    Len(total_supply_call) > 0 /\ Len(decimals_call) > 0

Reason(text, n, err) == [text |-> text, n |-> n, err |-> err]

\* is_actual_token(web3, contract_address) -> (is_token, reason).
\* getCode: the answer of web3.eth.get_code; tsCall, decCall: the answers
\* of the eth_call to totalSupply() and to decimals().
IsActualTokenResult(getCode, tsCall, decCall) ==
    IF getCode.raises
    THEN [raised |-> FALSE, isToken |-> FALSE,
          reason |-> Reason("Contract analysis failed: ", 0,
                            Take(getCode.msg, ReasonErrLen))]
    ELSE LET found == Erc20FunctionsFound(CodeHex(getCode.data))
         IN  IF TooFewFunctions(found)
             THEN [raised |-> FALSE, isToken |-> FALSE,
                   reason |-> Reason("Only n/8 ERC20 functions found", found, <<>>)]
             ELSE IF tsCall.raises
             THEN [raised |-> FALSE, isToken |-> FALSE,
                   reason |-> Reason("ERC20 function calls failed: ", found,
                                     Take(tsCall.msg, ReasonErrLen))]
             ELSE IF decCall.raises
             THEN [raised |-> FALSE, isToken |-> FALSE,
                   reason |-> Reason("ERC20 function calls failed: ", found,
                                     Take(decCall.msg, ReasonErrLen))]
             ELSE IF ProbesSucceeded(tsCall.data, decCall.data)
             THEN [raised |-> FALSE, isToken |-> TRUE,
                   reason |-> Reason("Valid ERC20 token (n/8 functions)", found, <<>>)]
             ELSE [raised |-> FALSE, isToken |-> FALSE,
                   reason |-> Reason("Failed ERC20 function verification", found, <<>>)]

----------------------------------------------------------------------------
(* ContractInspector: AdvancedRiskAnalyzer.analyze_contract_code *)

honeypot_patterns ==
    << <<141,165,203,91,0,0,0,0>>,   \* b'\x8d\xa5\xcb[\x00\x00\x00\x00'
       <<99,145,61,41,20>> >>        \* b'\x63\x91\x3d\x29\x14'

\* Hundredths added per honeypot fingerprint, and for a very large contract.
HoneypotPatternRisk == 30
LargeCodeRisk == 20
\* The size, in bytes, above which a contract counts as very large.
LargeCodeSize == 50000
\* 1.0 in hundredths.
MaxScore == 100

\* Mutant: a contract of exactly 50000 bytes counts as very large.
AnalyzeHoneypotRiskAtSize(c) ==
    Min(Cardinality({i \in 1..Len(honeypot_patterns) :
                        Contains(honeypot_patterns[i], c.body)}) * HoneypotPatternRisk
        + (IF CodeLen(c) >= LargeCodeSize THEN LargeCodeRisk ELSE 0),
        MaxScore)

\* _analyze_honeypot_risk(code), in hundredths.
AnalyzeHoneypotRisk(c) ==
    LET matched == Cardinality({i \in 1..Len(honeypot_patterns) :
                                   Contains(honeypot_patterns[i], c.body)})
        risk_score == matched * HoneypotPatternRisk
                      + (IF CodeLen(c) > LargeCodeSize THEN LargeCodeRisk ELSE 0)
    IN  Min(risk_score, MaxScore)

\* _check_ownership_renounced(code_hex)
CheckOwnershipRenounced(code_hex) ==
    Contains(<<"7","1","5","0","1","8","a","6">>, code_hex)

proxy_patterns ==
    << <<"3","6","6","0","0","0","8","0","3","7">>,   \* '3660008037'
       <<"3","6","1","0","3","d","6","0","1","c">> >> \* '36103d601c'

\* Mutant: only the first fingerprint is looked for.
CheckProxyPatternFirstOnly(code_hex) == Contains(proxy_patterns[1], code_hex)

\* _check_proxy_pattern(code_hex)
CheckProxyPattern(code_hex) ==
    \E i \in 1..Len(proxy_patterns) : Contains(proxy_patterns[i], code_hex)

\* _check_contract_verification(contract_address): the answer of the
\* verification service is a JSON object, or the request raises.  A missing
\* field or an empty result list raises inside the try and is swallowed.
CheckContractVerification(verif) ==
    IF verif.raises THEN FALSE
    ELSE LET data == verif.data
         IN  IF "status" \notin DOMAIN data THEN FALSE
             ELSE IF data["status"] # "1" THEN FALSE
             ELSE IF "result" \notin DOMAIN data THEN FALSE
             ELSE IF Len(data["result"]) = 0 THEN FALSE
             ELSE IF "SourceCode" \notin DOMAIN data["result"][1] THEN FALSE
             ELSE Len(data["result"][1]["SourceCode"]) > 0

\* The ContractAnalysis of the except branch.
ZeroSignalAnalysis ==
    [has_mint_function |-> FALSE, has_burn_function |-> FALSE,
     has_pause_function |-> FALSE, ownership_renounced |-> FALSE,
     liquidity_locked |-> FALSE, max_transaction_limit |-> "None",
     max_wallet_limit |-> "None", honeypot_risk |-> 0,
     contract_verified |-> FALSE, proxy_contract |-> FALSE]

\* The ContractAnalysis built from a fetched bytecode.
AnalysisOfCode(c, verif) ==
    LET code_hex == CodeHex(c)
    IN  [has_mint_function |-> Contains(<<"4","0","c","1","0","f","1","9">>, code_hex),
         has_burn_function |-> Contains(<<"4","2","9","6","6","c","6","8">>, code_hex),
         has_pause_function |-> Contains(<<"8","4","5","6","c","b","5","9">>, code_hex),
         ownership_renounced |-> CheckOwnershipRenounced(code_hex),
         liquidity_locked |-> FALSE,
         max_transaction_limit |-> "None",
         max_wallet_limit |-> "None",
         honeypot_risk |-> AnalyzeHoneypotRisk(c),
         contract_verified |-> CheckContractVerification(verif),
         proxy_contract |-> CheckProxyPattern(code_hex)]

\* Mutant: the bytecode fetch is made outside the try.
AnalyzeContractCodeNoCatch(getCode, verif) ==
    IF getCode.raises
    THEN [raised |-> TRUE, analysis |-> ZeroSignalAnalysis]
    ELSE [raised |-> FALSE, analysis |-> AnalysisOfCode(getCode.data, verif)]

\* analyze_contract_code(contract_address): every failure inside the try
\* ends in the except branch.
AnalyzeContractCodeResult(getCode, verif) ==
    IF getCode.raises
    THEN [raised |-> FALSE, analysis |-> ZeroSignalAnalysis]
    ELSE [raised |-> FALSE, analysis |-> AnalysisOfCode(getCode.data, verif)]

----------------------------------------------------------------------------
(* Large integers: wei amounts and token supplies, three limbs in base     *)
(* 10^9, most significant first.                                           *)

Big(top, mid, low) == <<top, mid, low>>

BigLess(a, b) ==
    \/ a[1] < b[1]
    \/ a[1] = b[1] /\ a[2] < b[2]
    \/ a[1] = b[1] /\ a[2] = b[2] /\ a[3] < b[3]

BigLessEq(a, b) == a = b \/ BigLess(a, b)

\* web3.to_wei(0.01, 'ether') = 10^16 wei
Wei001Ether == Big(0, 10000000, 0)
\* 1 ether = 10^18 wei
Wei1Ether == Big(1, 0, 0)
\* 10**21 and 10**18
Supply1e21 == Big(1000, 0, 0)
Supply1e18 == Big(1, 0, 0)

----------------------------------------------------------------------------
(* Names: re.search of a (?i) alternation of literal words *)

UpperLetters ==
    <<"A","B","C","D","E","F","G","H","I","J","K","L","M","N","O","P","Q","R",
      "S","T","U","V","W","X","Y","Z">>
LowerLetters ==
    <<"a","b","c","d","e","f","g","h","i","j","k","l","m","n","o","p","q","r",
      "s","t","u","v","w","x","y","z">>

LowerTable ==
    [c \in {UpperLetters[i] : i \in 1..Len(UpperLetters)} |->
        LowerLetters[CHOOSE i \in 1..Len(UpperLetters) : UpperLetters[i] = c]]

LowerChar(c) == IF c \in DOMAIN LowerTable THEN LowerTable[c] ELSE c

\* str.lower()
Lower(s) == [i \in 1..Len(s) |-> LowerChar(s[i])]

\* re.search(pattern, text) for a case-insensitive alternation of words.
ReSearch(pattern, text) == \E w \in pattern : Contains(w, Lower(text))

suspicious_patterns ==
    << {<<"e","l","o","n">>, <<"m","u","s","k">>, <<"t","e","s","l","a">>,
        <<"d","o","g","e">>, <<"s","h","i","b">>, <<"i","n","u">>},
       {<<"m","o","o","n">>, <<"r","o","c","k","e","t">>, <<"p","u","m","p">>,
        <<"s","a","f","e">>, <<"s","e","c","u","r","e">>},
       {<<"x","1","0","0">>, <<"1","0","0","0","x">>, <<"l","a","m","b","o">>,
        <<"g","e","m">>},
       {<<"p","e","p","e">>, <<"w","o","j","a","k">>, <<"c","h","a","d">>} >>

legitimate_patterns ==
    << {<<"u","n","i","s","w","a","p">>, <<"s","u","s","h","i","s","w","a","p">>,
        <<"p","a","n","c","a","k","e","s","w","a","p">>},
       {<<"c","o","m","p","o","u","n","d">>, <<"a","a","v","e">>,
        <<"m","a","k","e","r">>},
       {<<"c","h","a","i","n","l","i","n","k">>, <<"p","o","l","y","g","o","n">>,
        <<"a","v","a","l","a","n","c","h","e">>} >>

\* The for loop with break: some pattern of the list matches name or symbol.
AnyPatternMatches(patterns, name, symbol) ==
    \E i \in 1..Len(patterns) :
        ReSearch(patterns[i], name) \/ ReSearch(patterns[i], symbol)

ZeroAddress == [i \in 1..42 |-> IF i = 2 THEN "x" ELSE "0"]

known_scammer_addresses == {ZeroAddress}

----------------------------------------------------------------------------
(* Metric collectors of AdvancedRiskAnalyzer *)

\* A ratio num/den; the engine compares it with 0.8.
Ratio(num, den) == [num |-> num, den |-> den]
RatioAbove80(r) == r.num * 10 > 8 * r.den

\* Mutant: a recipient is counted once, however many logs name it.
CountRecipientsOnce(logs) ==
    [to_address \in {logs[i].topics[3] :
                        i \in {j \in 1..Len(logs) : Len(logs[j].topics) >= 3}} |-> 1]

\* The loop over the logs: holders[to_address] is the number of logs with
\* at least 3 topics whose third topic is to_address.
CountRecipients(logs) ==
    LET withTo == {i \in 1..Len(logs) : Len(logs[i].topics) >= 3}
    IN  [to_address \in {logs[i].topics[3] : i \in withTo} |->
            Cardinality({i \in withTo : logs[i].topics[3] = to_address})]

RECURSIVE SumOfLargest(_, _)
\* sum(sorted(holders.values(), reverse=True)[:k])
SumOfLargest(holders, k) ==
    IF k = 0 \/ DOMAIN holders = {} THEN 0
    ELSE LET top == CHOOSE a \in DOMAIN holders :
                        \A b \in DOMAIN holders : holders[b] <= holders[a]
         IN  holders[top]
             + SumOfLargest([a \in DOMAIN holders \ {top} |-> holders[a]], k - 1)

EmptyDict == [k \in {} |-> 0]

\* num / den: a ZeroDivisionError when den is 0.
DivisionByZero == [num |-> 0, den |-> 0]
Divide(num, den) == IF den = 0 THEN DivisionByZero ELSE Ratio(num, den)

\* analyze_holder_distribution(token_address): {} when the ledger fails or
\* a division raises.
AnalyzeHolderDistribution(getLogs) ==
    IF getLogs.raises THEN EmptyDict
    ELSE LET logs == getLogs.data
             total_transfers == Len(logs)
             holders == CountRecipients(logs)
             unique_holders == Cardinality(DOMAIN holders)
             avg_transactions_per_holder ==
                 IF unique_holders > 0
                 THEN Divide(total_transfers, unique_holders)
                 ELSE Ratio(0, 1)
             concentration_ratio ==
                 IF unique_holders > 0
                 THEN IF total_transfers > 0
                      THEN Divide(SumOfLargest(holders, 5), total_transfers)
                      ELSE Ratio(0, 1)
                 ELSE Ratio(0, 1)
         IN  IF DivisionByZero \in {avg_transactions_per_holder, concentration_ratio}
             THEN EmptyDict
             ELSE [unique_holders |-> unique_holders,
                   total_transfers |-> total_transfers,
                   avg_transactions_per_holder |-> avg_transactions_per_holder,
                   concentration_ratio |-> concentration_ratio,
                   holder_growth_rate |-> 0]

\* check_social_signals(name, symbol): placeholder data, whatever the token.
CheckSocialSignals ==
    [twitter_followers |-> 0, telegram_members |-> 0, discord_members |-> 0,
     reddit_subscribers |-> 0, website_exists |-> FALSE,
     whitepaper_exists |-> FALSE, github_activity |-> 0, social_sentiment |-> 0]

\* analyze_trading_patterns(token_address): {} when the ledger fails;
\* wash_trading_risk and bot_activity_detected are placeholders.
AnalyzeTradingPatterns(getLogs) ==
    IF getLogs.raises THEN EmptyDict
    ELSE [transaction_count |-> Len(getLogs.data),
          wash_trading_risk |-> 0,
          pump_dump_risk |-> 0,
          bot_activity_detected |-> FALSE]

----------------------------------------------------------------------------
(* RiskEngine: EnhancedTokenAnalyzer.comprehensive_analysis *)

\* if cond: risk_factors.append(text); risk_score += delta
AddRisk(acc, cond, delta, text) ==
    IF cond THEN [score |-> acc.score + delta, factors |-> Append(acc.factors, text)]
    ELSE acc

\* if cond: risk_score -= delta
ReduceRisk(acc, cond, delta) ==
    IF cond THEN [score |-> acc.score - delta, factors |-> acc.factors]
    ELSE acc

\* Mutant: the legitimate-name branch appends a factor too.
LegitimateNameRuleWithFactor(acc, name, symbol) ==
    IF AnyPatternMatches(legitimate_patterns, name, symbol)
    THEN [score |-> acc.score - 20,
          factors |-> Append(acc.factors, "Legitimate-sounding name")]
    ELSE acc

\* for pattern in self.risk_analyzer.legitimate_patterns, from the i-th
\* pattern on: the first match subtracts 0.2 and breaks.
RECURSIVE LegitimateNameLoop(_, _, _, _)
LegitimateNameLoop(acc, i, name, symbol) ==
    IF i > Len(legitimate_patterns) THEN acc
    ELSE IF ReSearch(legitimate_patterns[i], name)
                \/ ReSearch(legitimate_patterns[i], symbol)
    THEN ReduceRisk(acc, TRUE, 20)
    ELSE LegitimateNameLoop(acc, i + 1, name, symbol)

\* The loop over legitimate_patterns.
LegitimateNameRule(acc, name, symbol) == LegitimateNameLoop(acc, 1, name, symbol)

\* Mutant: the loop over suspicious_patterns without its break.
RECURSIVE SuspiciousNameLoopNoBreak(_, _, _, _)
SuspiciousNameLoopNoBreak(acc, i, name, symbol) ==
    IF i > Len(suspicious_patterns) THEN acc
    ELSE SuspiciousNameLoopNoBreak(
             AddRisk(acc, ReSearch(suspicious_patterns[i], name)
                              \/ ReSearch(suspicious_patterns[i], symbol),
                     20, "Suspicious name/symbol pattern"),
             i + 1, name, symbol)

SuspiciousNameRuleNoBreak(acc, name, symbol) ==
    SuspiciousNameLoopNoBreak(acc, 1, name, symbol)

\* for pattern in suspicious_patterns, from the i-th pattern on: the first
\* match appends the factor, adds 0.2 and breaks.
RECURSIVE SuspiciousNameLoop(_, _, _, _)
SuspiciousNameLoop(acc, i, name, symbol) ==
    IF i > Len(suspicious_patterns) THEN acc
    ELSE IF ReSearch(suspicious_patterns[i], name)
                \/ ReSearch(suspicious_patterns[i], symbol)
    THEN AddRisk(acc, TRUE, 20, "Suspicious name/symbol pattern")
    ELSE SuspiciousNameLoop(acc, i + 1, name, symbol)

\* The loop over suspicious_patterns.
SuspiciousNameRule(acc, name, symbol) == SuspiciousNameLoop(acc, 1, name, symbol)

\* min(risk_score, 1.0)
FinalScore(risk_score) == Min(risk_score, MaxScore)

\* Mutant: the holder-count rule is skipped.
HolderRulesNoCount(acc, holder_data) ==
    AddRisk(acc, RatioAbove80(Get(holder_data, "concentration_ratio", Ratio(0, 1))),
            30, "High holder concentration")

\* 3. Holder distribution analysis
HolderRules(acc, holder_data) ==
    LET a1 == AddRisk(acc,
                  RatioAbove80(Get(holder_data, "concentration_ratio", Ratio(0, 1))),
                  30, "High holder concentration")
    IN  AddRisk(a1, Get(holder_data, "unique_holders", 0) < 10,
                20, "Very few holders")

\* Mutant: the social rules are skipped.
SocialRulesNone(acc, social_data) == acc

\* 4. Social signals analysis
SocialRules(acc, social_data) ==
    LET a1 == AddRisk(acc, ~Get(social_data, "website_exists", FALSE),
                      10, "No official website found")
    IN  AddRisk(a1, Get(social_data, "twitter_followers", 0) < 100,
                10, "Low social media presence")

\* Mutant: a supply of exactly 10^21 counts as extremely high.
SupplyRulesInclusive(acc, total_supply) ==
    IF BigLessEq(Supply1e21, total_supply)
    THEN AddRisk(acc, TRUE, 30, "Extremely high token supply")
    ELSE AddRisk(acc, BigLess(Supply1e18, total_supply),
                 10, "Very high token supply")

\* 8. Supply analysis: if total_supply > 10**21 ... elif total_supply > 10**18
SupplyRules(acc, total_supply) ==
    IF BigLess(Supply1e21, total_supply)
    THEN AddRisk(acc, TRUE, 30, "Extremely high token supply")
    ELSE AddRisk(acc, BigLess(Supply1e18, total_supply),
                 10, "Very high token supply")

\* Mutant: a honeypot risk of exactly 0.5 counts as high.
HighHoneypotRuleInclusive(acc, contract_analysis) ==
    AddRisk(acc, contract_analysis.honeypot_risk >= 50,
            40, "High honeypot risk detected")

\* if contract_analysis.honeypot_risk > 0.5
HighHoneypotRule(acc, contract_analysis) ==
    AddRisk(acc, contract_analysis.honeypot_risk > 50,
            40, "High honeypot risk detected")

\* comprehensive_analysis(contract_address, creator_address, name, symbol,
\* total_supply).  in: the arguments and the collaborators' answers.
\* The two creator lookups are outside any try: their failure is raised to
\* the caller.
ComprehensiveAnalysisResult(in) ==
    IF in.txCount.raises \/ in.balance.raises
    THEN [raised |-> TRUE]
    ELSE
    LET contract_analysis == AnalyzeContractCodeResult(in.getCode, in.verif).analysis
        holder_data == AnalyzeHolderDistribution(in.holderLogs)
        social_data == CheckSocialSignals
        trading_data == AnalyzeTradingPatterns(in.tradingLogs)
        a0 == [score |-> 0, factors |-> <<>>]
        \* 1. Contract code analysis
        a1 == AddRisk(a0, contract_analysis.has_mint_function,
                      20, "Contract has mint function - inflation risk")
        a2 == AddRisk(a1, ~contract_analysis.ownership_renounced,
                      30, "Ownership not renounced - centralization risk")
        a3 == HighHoneypotRule(a2, contract_analysis)
        a4 == AddRisk(a3, ~contract_analysis.contract_verified,
                      20, "Contract not verified")
        a6 == HolderRules(a4, holder_data)
        a8 == SocialRules(a6, social_data)
        \* 5. Trading pattern analysis
        a9 == AddRisk(a8, Get(trading_data, "wash_trading_risk", 0) > 70,
                      30, "Suspected wash trading")
        a10 == AddRisk(a9, Get(trading_data, "bot_activity_detected", FALSE),
                       20, "Bot trading activity detected")
        \* 6. Creator address analysis
        a11 == AddRisk(a10, in.txCount.data < 5,
                       30, "New/low-activity creator address")
        a12 == AddRisk(a11, BigLess(in.balance.data, Wei001Ether),
                       20, "Creator has very low ETH balance")
        a13 == AddRisk(a12, Lower(in.creator_address) \in known_scammer_addresses,
                       80, "Creator address flagged as scammer")
        \* 7. Name and symbol analysis
        a14 == SuspiciousNameRule(a13, in.name, in.symbol)
        a15 == LegitimateNameRule(a14, in.name, in.symbol)
        \* 8. Supply analysis
        a16 == SupplyRules(a15, in.total_supply)
    IN  [raised |-> FALSE, raw |-> a16.score, score |-> FinalScore(a16.score),
         factors |-> a16.factors, analysis |-> contract_analysis,
         holder_data |-> holder_data, trading_data |-> trading_data]

----------------------------------------------------------------------------
(* RiskEngine of the monitors: analyze_contract_risk_enhanced              *)
(* (EnhancedTokenMonitor) and analyze_contract_risk (TokenMonitor)         *)

\* Mutant: HIGH starts above 0.6 instead of at 0.6.
RiskLevelStrictHigh(risk_score) ==
    IF risk_score >= 80 THEN "CRITICAL"
    ELSE IF risk_score > 60 THEN "HIGH"
    ELSE IF risk_score >= 40 THEN "MEDIUM"
    ELSE "LOW"

\* Mutant: CRITICAL starts at 0.7.
RiskLevelCriticalFrom70(risk_score) ==
    IF risk_score >= 70 THEN "CRITICAL"
    ELSE IF risk_score >= 60 THEN "HIGH"
    ELSE IF risk_score >= 40 THEN "MEDIUM"
    ELSE "LOW"

\* Determine risk level
RiskLevel(risk_score) ==
    IF risk_score >= 80 THEN "CRITICAL"
    ELSE IF risk_score >= 60 THEN "HIGH"
    ELSE IF risk_score >= 40 THEN "MEDIUM"
    ELSE "LOW"

\* Mutant: the lower clamp is missing.
ClampScoreUpperOnly(risk_score) == Min(MaxScore, risk_score)

\* max(0.0, min(1.0, risk_score))
ClampScore(risk_score) == Max(0, Min(MaxScore, risk_score))

\* The inner except of analyze_contract_risk_enhanced keeps what was
\* collected and adds 0.1.
UnableToAnalyze(acc) ==
    [score |-> acc.score + 10,
     factors |-> Append(acc.factors, "Unable to analyze contract code")]

\* analyze_contract_risk_enhanced(chain, contract_address, creator_address,
\* etherscan_data).  from_wei gives a Decimal, which Python compares exactly
\* with the float 0.01 (slightly above 1/100): a balance of exactly 10^16
\* wei counts as below 0.01.
AnalyzeContractRiskEnhancedResult(in) ==
    LET a0 == [score |-> 0, factors |-> <<>>]
        \* Etherscan verification bonus
        a1 == IF Get(in.etherscan_data, "verified", FALSE)
              THEN [score |-> a0.score - 20,
                    factors |-> Append(a0.factors, "Contract verified on Etherscan")]
              ELSE [score |-> a0.score + 30,
                    factors |-> Append(a0.factors, "Contract not verified")]
        \* Source code analysis
        a2 == IF Get(in.etherscan_data, "source_code_available", FALSE)
              THEN [score |-> a1.score - 10,
                    factors |-> Append(a1.factors, "Source code publicly available")]
              ELSE [score |-> a1.score + 20,
                    factors |-> Append(a1.factors, "Source code not available")]
        code_hex == CodeHex(in.getCode.data)
        a3 == AddRisk(a2, Contains(<<"4","0","c","1","0","f","1","9">>, code_hex),
                      30, "Contract has mint function")
        a4 == AddRisk(a3, Contains(<<"8","4","5","6","c","b","5","9">>, code_hex),
                      20, "Contract has pause function")
        \* Creator analysis
        a5 == IF in.txCount.data < 5
              THEN AddRisk(a4, TRUE, 30, "New/low-activity creator")
              ELSE IF in.txCount.data > 100
              THEN [score |-> a4.score - 10,
                    factors |-> Append(a4.factors, "Experienced creator")]
              ELSE a4
        \* Creator balance
        a6 == IF BigLessEq(in.balance.data, Wei001Ether)
              THEN AddRisk(a5, TRUE, 20, "Creator has very low ETH balance")
              ELSE IF BigLess(Wei1Ether, in.balance.data)
              THEN [score |-> a5.score - 10,
                    factors |-> Append(a5.factors, "Creator has significant ETH balance")]
              ELSE a5
        acc == IF ~in.chainKnown THEN a2
               ELSE IF in.getCode.raises THEN UnableToAnalyze(a2)
               ELSE IF in.txCount.raises THEN UnableToAnalyze(a4)
               ELSE IF in.balance.raises THEN UnableToAnalyze(a5)
               ELSE a6
        risk_score == ClampScore(acc.score)
    IN  [raised |-> FALSE, raw |-> acc.score, score |-> risk_score,
         level |-> RiskLevel(risk_score), factors |-> acc.factors]

\* The except of analyze_contract_risk keeps the factors collected and
\* overwrites the score with 0.5.
AnalysisError(acc) ==
    [score |-> 50,
     factors |-> Append(acc.factors, "Unable to analyze contract code")]

\* analyze_contract_risk(chain, contract_address, creator_address).  The
\* level is taken from the score before min(risk_score, 1.0).
\* hexPrefix: the length of the "0x" that code.hex() puts, or not, before
\* the digits, depending on the installed hexbytes.
AnalyzeContractRiskResult(in) ==
    LET a0 == [score |-> 0, factors |-> <<>>]
        code_hex == CodeHex(in.getCode.data)
        a1 == AddRisk(a0, Contains(<<"4","0","c","1","0","f","1","9">>, code_hex),
                      30, "Contract has mint function - inflation risk")
        a2 == AddRisk(a1, Contains(<<"8","4","5","6","c","b","5","9">>, code_hex),
                      20, "Contract has pause function")
        a3 == AddRisk(a2, in.txCount.data < 5,
                      30, "New/low-activity creator address")
        a4 == AddRisk(a3, BigLess(in.balance.data, Wei001Ether),
                      20, "Creator has very low ETH balance")
        a5 == AddRisk(a4, in.hexPrefix + 2 * CodeLen(in.getCode.data) < 100,
                      10, "Contract appears to be minimal/proxy")
        acc == IF ~in.chainKnown THEN a0
               ELSE IF in.getCode.raises THEN AnalysisError(a0)
               ELSE IF in.txCount.raises THEN AnalysisError(a2)
               ELSE IF in.balance.raises THEN AnalysisError(a3)
               ELSE a5
    IN  [raised |-> FALSE, raw |-> acc.score, score |-> Min(acc.score, MaxScore),
         level |-> RiskLevel(acc.score), factors |-> acc.factors]

----------------------------------------------------------------------------
(* The collaborators' answers the model draws from *)

\* The length of the long error text of a failing collaborator.
LongErrLen == 60

ShortErr == <<"t","i","m","e","o","u","t">>
LongErr == [i \in 1..LongErrLen |-> "e"]

\* web3.eth.get_code(address): the bytecode at the address, or a failure.
GetCodeAnswers(c) == {Returns(c), Raises(LongErr)}

\* web3.eth.call: 32 bytes of data, no data, or a failure.
Word32 == [i \in 1..32 |-> 0]
CallAnswers == {Returns(Word32), Returns(<<>>), Raises(ShortErr)}

\* The verification service: a source listing, an unverified contract (empty
\* SourceCode), a refusal (status 0, result a message), an answer lacking
\* fields, an empty result list, or a failing request.
VerifAnswers ==
    {Returns([status |-> "1", result |-> << [SourceCode |-> <<"c">>] >>]),
     Returns([status |-> "1", result |-> << [SourceCode |-> <<>>] >>]),
     Returns([status |-> "0", result |-> <<"N","O","T","O","K">>]),
     Returns([message |-> "NOTOK"]),
     Returns([status |-> "1", result |-> <<>>]),
     Raises(ShortErr)}

\* The bytecodes of the classifier's and the inspector's specification.
\* ERC-20 selector sets of 8, 7, 6 and 5 selectors, and none.
InspectErcSets ==
    {Erc20Names \ R : R \in {R \in SUBSET {"totalSupply", "name", "symbol", "decimals"} :
                                Cardinality(R) <= 3}}
    \cup {{}}
InspectExtras ==
    {{}, {"proxy1"}, {"proxy2", "push"},
     {"mint", "burn", "pause", "renounce", "honeypot1", "honeypot2"}}
InspectCodes ==
    {Assemble(S \cup X, 0) : S \in InspectErcSets, X \in InspectExtras}
    \cup {EmptyCode,
          Assemble({"honeypot1", "proxy1"}, LargeCodeSize),
          Assemble({"honeypot1", "honeypot2"}, LargeCodeSize),
          Assemble({"honeypot2"}, 0),
          Assemble({"push"}, LargeCodeSize - Len(Chunk("push")))}

----------------------------------------------------------------------------
(* Actions of the classifier and the inspector *)

\* One call of is_actual_token on the analysed address.
IsActualToken ==
    /\ cls = None
    /\ \E getCode \in GetCodeAnswers(code), tsCall \in CallAnswers,
          decCall \in CallAnswers :
          cls' = [made |-> TRUE, getCode |-> getCode, tsCall |-> tsCall,
                  decCall |-> decCall,
                  out |-> IsActualTokenResult(getCode, tsCall, decCall)]
    /\ UNCHANGED <<code, ca, res, storeVars, watchVars, limVars, lookupVars>>

\* One call of analyze_contract_code on the analysed address.
AnalyzeContractCode ==
    /\ ca = None
    /\ \E getCode \in GetCodeAnswers(code), verif \in VerifAnswers :
          ca' = [made |-> TRUE, getCode |-> getCode, verif |-> verif,
                 out |-> AnalyzeContractCodeResult(getCode, verif)]
    /\ UNCHANGED <<code, cls, res, storeVars, watchVars, limVars, lookupVars>>

InitInspect ==
    /\ code \in InspectCodes
    /\ cls = None
    /\ ca = None
    /\ res = None
    /\ StoreIdle /\ WatchIdle /\ LimIdle /\ LookupIdle

NextInspect == IsActualToken \/ AnalyzeContractCode

SpecInspect == InitInspect /\ [][NextInspect]_vars

----------------------------------------------------------------------------
(* Properties of the classifier and the inspector (SpecInspect) *)

\* The 8 canonical ERC-20 selectors and the two proxy fingerprints, as the
\* specification lists them.
CanonicalSelectors ==
    {<<"7","0","a","0","8","2","3","1">>, <<"a","9","0","5","9","c","b","b">>,
     <<"0","9","5","e","a","7","b","3">>, <<"d","d","6","2","e","d","3","e">>,
     <<"1","8","1","6","0","d","d","d">>, <<"0","6","f","d","d","e","0","3">>,
     <<"9","5","d","8","9","b","4","1">>, <<"3","1","3","c","e","5","6","7">>}
ProxyFingerprint1 == <<"3","6","6","0","0","0","8","0","3","7">>
ProxyFingerprint2 == <<"3","6","1","0","3","d","6","0","1","c">>
MintSelector == <<"4","0","c","1","0","f","1","9">>

\* How many canonical selectors occur in the hex text of bytecode c.
SelectorCount(c) == Cardinality({s \in CanonicalSelectors : Contains(s, CodeHex(c))})

\* A probe answered with data.
ProbeOk(call) == ~call.raises /\ call.data # <<>>

\* Every boolean false, risk 0, unverified.
IsZeroSignal(a) ==
    /\ ~a.has_mint_function /\ ~a.has_burn_function /\ ~a.has_pause_function
    /\ ~a.ownership_renounced /\ ~a.liquidity_locked /\ ~a.proxy_contract
    /\ ~a.contract_verified /\ a.honeypot_risk = 0

\* C8: is_actual_token answers isToken = true exactly when the bytecode was
\* fetched, at least 6 of the 8 canonical selectors occur in it and both
\* probes returned data; below 6 selectors the reason cites the count n of
\* "n/8"; every other case answers false with a reason, and no case raises.
C8_ClassifierGate ==
    cls.made =>
        /\ ~cls.out.raised
        /\ cls.out.isToken <=>
              (/\ ~cls.getCode.raises
               /\ SelectorCount(code) >= 6
               /\ ProbeOk(cls.tsCall)
               /\ ProbeOk(cls.decCall))
        /\ (~cls.getCode.raises /\ SelectorCount(code) < 6) =>
              (/\ cls.out.reason.text = "Only n/8 ERC20 functions found"
               /\ cls.out.reason.n = SelectorCount(code))
        /\ ~cls.out.isToken => cls.out.reason.text # ""

\* C8 witness: a bytecode of exactly 6 selectors whose probes both answered
\* was accepted.
C8_Witness ==
    /\ cls.made
    /\ SelectorCount(code) = 6
    /\ cls.out.isToken

\* C9: the inspector's proxy_contract is true exactly when one of the two
\* fingerprints occurs in the fetched bytecode; a bytecode with the
\* fingerprint 3660008037 and no ERC-20 selector is rejected by the
\* classifier and reported as a proxy by the inspector.
C9_ProxyFlag ==
    /\ (ca.made /\ ~ca.getCode.raises) =>
          (ca.out.analysis.proxy_contract <=>
              (\/ Contains(ProxyFingerprint1, CodeHex(code))
               \/ Contains(ProxyFingerprint2, CodeHex(code))))
    /\ (Contains(ProxyFingerprint1, CodeHex(code)) /\ SelectorCount(code) = 0) =>
          /\ cls.made => ~cls.out.isToken
          /\ (ca.made /\ ~ca.getCode.raises) => ca.out.analysis.proxy_contract

\* C9 witness: both calls were made on a bytecode holding only the first
\* fingerprint.
C9_Witness ==
    /\ cls.made /\ ca.made
    /\ ~cls.getCode.raises /\ ~ca.getCode.raises
    /\ Contains(ProxyFingerprint1, CodeHex(code))
    /\ ~Contains(ProxyFingerprint2, CodeHex(code))
    /\ SelectorCount(code) = 0
    /\ ~cls.out.isToken
    /\ ca.out.analysis.proxy_contract

\* C10 as claimed: analyze_contract_code never raises, and when the bytecode
\* fetch or the verification lookup raised it returns the zero-signal
\* analysis.
C10_Original ==
    ca.made =>
        /\ ~ca.out.raised
        /\ (ca.getCode.raises \/ ca.verif.raises) => IsZeroSignal(ca.out.analysis)

\* C10 amended: analyze_contract_code never raises; when the bytecode fetch
\* raised it returns the zero-signal analysis; when only the verification
\* lookup raised, contract_verified is false and the other fields are those
\* of the fetched bytecode.
C10_InspectFailOpen ==
    ca.made =>
        /\ ~ca.out.raised
        /\ ca.getCode.raises => IsZeroSignal(ca.out.analysis)
        /\ (~ca.getCode.raises /\ ca.verif.raises) =>
              /\ ~ca.out.analysis.contract_verified
              /\ ca.out.analysis.has_mint_function
                    <=> Contains(MintSelector, CodeHex(code))
              /\ ca.out.analysis.proxy_contract
                    <=> (\/ Contains(ProxyFingerprint1, CodeHex(code))
                         \/ Contains(ProxyFingerprint2, CodeHex(code)))

\* C10 witness: the fetch failed for a bytecode that carries signals.
C10_Witness ==
    /\ ca.made
    /\ ca.getCode.raises
    /\ Contains(MintSelector, CodeHex(code))
    /\ IsZeroSignal(ca.out.analysis)

HoneypotFingerprint1 == <<141, 165, 203, 91, 0, 0, 0, 0>>
HoneypotFingerprint2 == <<99, 145, 61, 41, 20>>

\* The honeypot fingerprints that occur in a bytecode.
FingerprintsFound(c) ==
    {f \in {HoneypotFingerprint1, HoneypotFingerprint2} : Contains(f, c.body)}

\* C22: honeypot_risk is 0.3 times the number of honeypot fingerprints found
\* in the fetched bytecode, plus 0.2 when the bytecode is longer than 50000
\* bytes, clamped to [0,1], and lies in [0,1] for every bytecode.
C22_HoneypotRisk ==
    (ca.made /\ ~ca.getCode.raises) =>
        /\ ca.out.analysis.honeypot_risk =
              Max(0, Min(100, 30 * Cardinality(FingerprintsFound(code))
                                  + (IF CodeLen(code) > 50000 THEN 20 ELSE 0)))
        /\ ca.out.analysis.honeypot_risk >= 0
        /\ ca.out.analysis.honeypot_risk <= 100

\* C22 witness: a bytecode longer than 50000 bytes with both fingerprints
\* was given 0.8.
C22_Witness ==
    /\ ca.made /\ ~ca.getCode.raises
    /\ Cardinality(FingerprintsFound(code)) = 2
    /\ CodeLen(code) > 50000
    /\ ca.out.analysis.honeypot_risk = 80

\* C23 as claimed: for an empty bytecode analyze_contract_code returns the
\* neutral analysis, contract_verified false included, whatever the
\* verification service answers.
C23_EmptyCodeNeutral ==
    (ca.made /\ ~ca.getCode.raises /\ ca.getCode.data = EmptyCode) =>
        IsZeroSignal(ca.out.analysis)

----------------------------------------------------------------------------
(* The risk engines' inputs *)

\* The most recipients and the most transfers to one recipient in the
\* transfer logs of the model.
ManyRecipients == 10
HeavyTransfers == 21

TransferSig == "0xddf252ad"
TransferLog(to) == [topics |-> <<TransferSig, 0, to>>]

\* web3.eth.get_logs: three transfers to one recipient; ManyRecipients
\* recipients of one transfer each; HeavyTransfers transfers to one
\* recipient and one each to 9 others, with a log of two topics; or a
\* failure.
LogsAnswers ==
    {Returns([i \in 1..3 |-> TransferLog(1)]),
     Returns([i \in 1..ManyRecipients |-> TransferLog(i)]),
     Returns([i \in 1..(HeavyTransfers + 10) |->
                 IF i <= HeavyTransfers THEN TransferLog(1)
                 ELSE IF i = HeavyTransfers + 10 THEN [topics |-> <<TransferSig, 0>>]
                 ELSE TransferLog(i - HeavyTransfers + 1)]),
     Raises(ShortErr)}

TradingLogsAnswers == {Returns(<<>>), Raises(ShortErr)}

\* web3.eth.get_transaction_count(creator)
TxCountAnswers == {Returns(4), Returns(5), Returns(100), Returns(200), Raises(ShortErr)}

\* A lookup that is not made, an earlier one having raised.
NotCalled == [raises |-> FALSE, data |-> "not called"]

\* The creator lookups comprehensive_analysis is run with.
EngineTxCountAnswers == {Returns(4), Returns(5), Returns(200), Raises(ShortErr)}
EngineBalanceAnswers(txCount) ==
    IF txCount.raises THEN {NotCalled}
    ELSE {Returns(Big(0, 9999999, 999999999)), Returns(Wei001Ether),
          Returns(Wei1Ether), Raises(ShortErr)}

\* web3.eth.get_balance(creator): 10^16 - 1, 10^16, 10^18 and 10^18 + 1 wei
BalanceAnswers ==
    {Returns(Big(0, 9999999, 999999999)), Returns(Wei001Ether),
     Returns(Wei1Ether), Returns(Big(1, 0, 1)), Raises(ShortErr)}

\* The creator's address: the denylisted zero address, or another.
OtherAddress == [i \in 1..42 |-> IF i = 2 THEN "x" ELSE IF i = 1 THEN "0" ELSE "A"]
CreatorAddresses == {ZeroAddress, OtherAddress}

\* (name, symbol) pairs: no family; one suspicious family; one legitimate
\* family; two suspicious and two legitimate families; a suspicious symbol
\* only.
NameSymbolPairs ==
    { << <<"T","o","k","e","n","_","a","b","1","2","c","d">>, <<"T","A","B","1","2">> >>,
      << <<"S","a","f","e","M","o","o","n">>, <<"S","A","F","E">> >>,
      << <<"A","a","v","e"," ","V","a","u","l","t">>, <<"A","A","V","E">> >>,
      << <<"U","n","i","s","w","a","p"," ","A","a","v","e"," ","I","n","u">>,
         <<"P","E","P","E">> >>,
      << <<"T","o","k","e","n","_","a","b","1","2","c","d">>, <<"C","H","A","D">> >> }

\* Supplies 10^9, 10^18, 10^18 + 1, 10^21 and 10^21 + 1.
TotalSupplies ==
    {Big(0, 1, 0), Supply1e18, Big(1, 0, 1), Supply1e21, Big(1000, 0, 1)}

\* The verification service's answers the engine is run with.
EngineVerifAnswers ==
    {Returns([status |-> "1", result |-> << [SourceCode |-> <<"c">>] >>]),
     Raises(ShortErr)}

\* What check_etherscan_verification returns: not configured or failed;
\* verified with source; not verified.
EtherscanData ==
    {[verified |-> FALSE, error |-> "API not configured"],
     [verified |-> TRUE, contract_name |-> "Unknown", source_code_available |-> TRUE],
     [verified |-> FALSE, source_code_available |-> FALSE]}

\* The bytecodes of the risk engines' specification: two are 49 and 50
\* bytes long, two longer than 50000 bytes with one and with both honeypot
\* fingerprints.
RiskCodes ==
    {EmptyCode,
     Assemble({"push"}, 0),
     Assemble({"mint", "pause"}, 0),
     Assemble({"renounce"}, 0),
     Assemble({"mint", "renounce", "honeypot1", "honeypot2"}, 0),
     Assemble({"mint"}, 45),
     Assemble({"pause"}, 46),
     Assemble({"honeypot2"}, LargeCodeSize),
     Assemble({"honeypot1", "honeypot2"}, LargeCodeSize)}

----------------------------------------------------------------------------
(* Actions of the risk engines *)

\* One call of comprehensive_analysis.
ComprehensiveAnalysis ==
    /\ res = None
    /\ \E getCode \in GetCodeAnswers(code), verif \in EngineVerifAnswers,
          holderLogs \in LogsAnswers, tradingLogs \in TradingLogsAnswers,
          txCount \in EngineTxCountAnswers,
          creator \in CreatorAddresses, ns \in NameSymbolPairs,
          supply \in TotalSupplies :
          \E balance \in EngineBalanceAnswers(txCount) :
          LET in == [getCode |-> getCode, verif |-> verif,
                     holderLogs |-> holderLogs, tradingLogs |-> tradingLogs,
                     txCount |-> txCount, balance |-> balance,
                     creator_address |-> creator, name |-> ns[1],
                     symbol |-> ns[2], total_supply |-> supply]
          IN  res' = [made |-> TRUE, engine |-> "comprehensive", in |-> in,
                      out |-> ComprehensiveAnalysisResult(in)]
    /\ UNCHANGED <<code, cls, ca, storeVars, watchVars, limVars, lookupVars>>

\* One call of analyze_contract_risk_enhanced.
AnalyzeContractRiskEnhanced ==
    /\ res = None
    /\ \E chainKnown \in BOOLEAN, etherscan_data \in EtherscanData,
          getCode \in GetCodeAnswers(code), txCount \in TxCountAnswers,
          balance \in BalanceAnswers :
          LET in == [chainKnown |-> chainKnown, etherscan_data |-> etherscan_data,
                     getCode |-> getCode, txCount |-> txCount, balance |-> balance]
          IN  res' = [made |-> TRUE, engine |-> "enhanced", in |-> in,
                      out |-> AnalyzeContractRiskEnhancedResult(in)]
    /\ UNCHANGED <<code, cls, ca, storeVars, watchVars, limVars, lookupVars>>

\* One call of analyze_contract_risk.
AnalyzeContractRisk ==
    /\ res = None
    /\ \E chainKnown \in BOOLEAN, getCode \in GetCodeAnswers(code),
          txCount \in TxCountAnswers, balance \in BalanceAnswers,
          hexPrefix \in {0, 2} :
          LET in == [chainKnown |-> chainKnown, getCode |-> getCode,
                     txCount |-> txCount, balance |-> balance,
                     hexPrefix |-> hexPrefix]
          IN  res' = [made |-> TRUE, engine |-> "basic", in |-> in,
                      out |-> AnalyzeContractRiskResult(in)]
    /\ UNCHANGED <<code, cls, ca, storeVars, watchVars, limVars, lookupVars>>

InitRisk ==
    /\ code \in RiskCodes
    /\ cls = None
    /\ ca = None
    /\ res = None
    /\ StoreIdle /\ WatchIdle /\ LimIdle /\ LookupIdle

NextRisk ==
    \/ ComprehensiveAnalysis
    \/ AnalyzeContractRiskEnhanced
    \/ AnalyzeContractRisk

SpecRisk == InitRisk /\ [][NextRisk]_vars

----------------------------------------------------------------------------
(* Properties of the risk engines (SpecRisk) *)

\* The level the fixed thresholds give a score in hundredths.
ExpectedLevel(score) ==
    CASE score >= 80 -> "CRITICAL"
      [] score >= 60 /\ score < 80 -> "HIGH"
      [] score >= 40 /\ score < 60 -> "MEDIUM"
      [] OTHER -> "LOW"

Clamp01(x) == IF x < 0 THEN 0 ELSE IF x > 100 THEN 100 ELSE x

\* A completed call of the named engine.
Returned(engine) == res.made /\ res.engine = engine /\ ~res.out.raised

Rule(fires, delta, text) == [fires |-> fires, delta |-> delta, text |-> text]

\* The canonical rule table on a completed call r of comprehensive_analysis,
\* in evaluation order.  holderOn, tradingOn: whether the holder and the
\* trading rules are evaluated at all.  The mitigant has no text.
CanonicalRules(r, holderOn, tradingOn) ==
    LET a == r.out.analysis
        h == r.out.holder_data
        t == r.out.trading_data
    IN << Rule(a.has_mint_function, 20, "Contract has mint function - inflation risk"),
          Rule(~a.ownership_renounced, 30, "Ownership not renounced - centralization risk"),
          Rule(a.honeypot_risk > 50, 40, "High honeypot risk detected"),
          Rule(~a.contract_verified, 20, "Contract not verified"),
          Rule(holderOn /\ RatioAbove80(Get(h, "concentration_ratio", Ratio(0, 1))),
               30, "High holder concentration"),
          Rule(holderOn /\ Get(h, "unique_holders", 0) < 10, 20, "Very few holders"),
          Rule(TRUE, 10, "No official website found"),
          Rule(TRUE, 10, "Low social media presence"),
          Rule(tradingOn /\ Get(t, "wash_trading_risk", 0) > 70,
               30, "Suspected wash trading"),
          Rule(tradingOn /\ Get(t, "bot_activity_detected", FALSE),
               20, "Bot trading activity detected"),
          Rule(r.in.txCount.data < 5, 30, "New/low-activity creator address"),
          Rule(BigLess(r.in.balance.data, Wei001Ether),
               20, "Creator has very low ETH balance"),
          Rule(Lower(r.in.creator_address) = ZeroAddress,
               80, "Creator address flagged as scammer"),
          Rule(AnyPatternMatches(suspicious_patterns, r.in.name, r.in.symbol),
               20, "Suspicious name/symbol pattern"),
          Rule(AnyPatternMatches(legitimate_patterns, r.in.name, r.in.symbol), -20, ""),
          Rule(BigLess(Supply1e21, r.in.total_supply),
               30, "Extremely high token supply"),
          Rule(BigLess(Supply1e18, r.in.total_supply)
                   /\ BigLessEq(r.in.total_supply, Supply1e21),
               10, "Very high token supply") >>

RECURSIVE RuleSum(_, _)
RuleSum(rules, i) ==
    IF i > Len(rules) THEN 0
    ELSE (IF rules[i].fires THEN rules[i].delta ELSE 0) + RuleSum(rules, i + 1)

RECURSIVE RuleFactors(_, _)
RuleFactors(rules, i) ==
    IF i > Len(rules) THEN <<>>
    ELSE (IF rules[i].fires /\ rules[i].text # "" THEN <<rules[i].text>> ELSE <<>>)
         \o RuleFactors(rules, i + 1)

HolderTexts == {"High holder concentration", "Very few holders"}
TradingTexts == {"Suspected wash trading", "Bot trading activity detected"}
Factors(r) == {r.out.factors[i] : i \in 1..Len(r.out.factors)}

\* C1: every score a risk engine returns is at least 0 and at most 1, also
\* when the sum of the deltas is below 0 or above 1.
C1_ScoreInUnitInterval ==
    (res.made /\ ~res.out.raised) => (res.out.score >= 0 /\ res.out.score <= 100)

\* C1 witness: analyze_contract_risk_enhanced summed its deltas to less
\* than 0 and returned 0.
C1_Witness == Returned("enhanced") /\ res.out.raw < 0 /\ res.out.score = 0

\* C2: the level analyze_contract_risk_enhanced and analyze_contract_risk
\* return is the threshold function of the score they return, also after an
\* analysis error has overwritten the score.
C2_LevelFromScore ==
    (Returned("enhanced") \/ Returned("basic")) =>
        res.out.level = ExpectedLevel(res.out.score)

\* C2 witness: a returned score of exactly 0.6 with level HIGH.
C2_Witness ==
    /\ Returned("enhanced") \/ Returned("basic")
    /\ res.out.score = 60
    /\ res.out.level = "HIGH"

\* C3: when the holder and trading sources answered, the score of
\* comprehensive_analysis is the sum of the deltas of the canonical rules
\* that fire, clamped to [0,1], and the factor list holds one entry per
\* fired rule with a text, in the table's order.
C3_ScoreIsRuleSum ==
    (Returned("comprehensive") /\ ~res.in.holderLogs.raises
         /\ ~res.in.tradingLogs.raises) =>
        LET rules == CanonicalRules(res, TRUE, TRUE)
        IN  /\ res.out.score = Clamp01(RuleSum(rules, 1))
            /\ res.out.factors = RuleFactors(rules, 1)

\* C3 witness: a sum above 1 was clamped, the mitigant having fired.
C3_Witness ==
    /\ Returned("comprehensive")
    /\ ~res.in.holderLogs.raises /\ ~res.in.tradingLogs.raises
    /\ res.out.raw > 100
    /\ AnyPatternMatches(legitimate_patterns, res.in.name, res.in.symbol)
    /\ Len(res.out.factors) >= 8

\* The inputs of the end-to-end example: mint, ownership not renounced,
\* honeypot risk 0, verified, no holder rule firing (at least 10 holders,
\* concentration at most 0.8), wash-trading risk 0, no bot activity, 200
\* creator transactions, a balance of 1 ether, a supply of 10^9, a creator
\* not denylisted and a name and symbol of no pattern family.
C4_ExampleInputs ==
    /\ Returned("comprehensive")
    /\ res.out.analysis.has_mint_function
    /\ ~res.out.analysis.ownership_renounced
    /\ res.out.analysis.honeypot_risk = 0
    /\ res.out.analysis.contract_verified
    /\ ~res.in.holderLogs.raises
    /\ ~RatioAbove80(res.out.holder_data["concentration_ratio"])
    /\ res.out.holder_data["unique_holders"] >= 10
    /\ ~res.in.tradingLogs.raises
    /\ res.out.trading_data["wash_trading_risk"] = 0
    /\ ~res.out.trading_data["bot_activity_detected"]
    /\ res.in.txCount.data = 200
    /\ res.in.balance.data = Wei1Ether
    /\ res.in.total_supply = Big(0, 1, 0)
    /\ res.in.creator_address # ZeroAddress
    /\ ~AnyPatternMatches(suspicious_patterns, res.in.name, res.in.symbol)
    /\ ~AnyPatternMatches(legitimate_patterns, res.in.name, res.in.symbol)

\* C4 as claimed: on the example's inputs the score is 0.50 and the level
\* derived from it is MEDIUM.
C4_Original ==
    C4_ExampleInputs =>
        (res.out.score = 50 /\ ExpectedLevel(res.out.score) = "MEDIUM")

\* C4 amended: on the example's inputs the score is 0.70 (0.20 mint, 0.30
\* ownership not renounced, 0.10 no website, 0.10 low social presence) and
\* the level derived from it is HIGH.
C4_ExampleScore ==
    C4_ExampleInputs =>
        /\ res.out.score = 70
        /\ ExpectedLevel(res.out.score) = "HIGH"
        /\ res.out.factors =
              <<"Contract has mint function - inflation risk",
                "Ownership not renounced - centralization risk",
                "No official website found",
                "Low social media presence">>

\* C4 witness: the engine was run on the example's inputs.
C4_Witness == C4_ExampleInputs /\ res.out.raw = 70

\* C5 as claimed: a holder or trading source that failed contributes no
\* delta and no factor: the score and the factors are those of the rule
\* table with that source's rules left out.
C5_AbsentSourceNeutral ==
    Returned("comprehensive") =>
        LET rules == CanonicalRules(res, ~res.in.holderLogs.raises,
                                    ~res.in.tradingLogs.raises)
        IN  /\ res.in.holderLogs.raises => Factors(res) \cap HolderTexts = {}
            /\ res.in.tradingLogs.raises => Factors(res) \cap TradingTexts = {}
            /\ res.out.raw = RuleSum(rules, 1)
            /\ res.out.factors = RuleFactors(rules, 1)

\* Whether name and symbol match a suspicious, a legitimate family.
Suspicious(ns) == AnyPatternMatches(suspicious_patterns, ns[1], ns[2])
Legitimate(ns) == AnyPatternMatches(legitimate_patterns, ns[1], ns[2])

\* C6: the legitimate-name mitigant adds no factor: run again with a name
\* and symbol that differ only in matching a known-protocol family, the
\* engine gives the same factors and a sum lower by exactly 0.20.
C6_MitigantSilent ==
    Returned("comprehensive") =>
        \A ns \in NameSymbolPairs :
            (/\ Legitimate(ns)
             /\ ~Legitimate(<<res.in.name, res.in.symbol>>)
             /\ Suspicious(ns) <=> Suspicious(<<res.in.name, res.in.symbol>>)) =>
                LET other == ComprehensiveAnalysisResult(
                                 [res.in EXCEPT !.name = ns[1], !.symbol = ns[2]])
                IN  /\ other.factors = res.out.factors
                    /\ other.raw = res.out.raw - 20

\* C6 witness: a call whose name matches no known-protocol family and has a
\* counterpart in the model that does, both matching a suspicious family.
C6_Witness ==
    /\ Returned("comprehensive")
    /\ ~Legitimate(<<res.in.name, res.in.symbol>>)
    /\ Suspicious(<<res.in.name, res.in.symbol>>)
    /\ \E ns \in NameSymbolPairs : Legitimate(ns) /\ Suspicious(ns)

\* The sentinel factor of a failed analysis in analyze_contract_risk_enhanced
\* and analyze_contract_risk.
FailureSentinel == "Unable to analyze contract code"

\* A lookup of the engine's try block raised.
AnalysisFailed(r) ==
    /\ r.in.chainKnown
    /\ r.in.getCode.raises \/ r.in.txCount.raises \/ r.in.balance.raises

\* C16 as claimed: in every result the factor list is non-empty when the
\* score is above 0, and when the analysis failed the factor list is
\* exactly the one sentinel factor.
C16_FactorsOrSentinel ==
    /\ (res.made /\ ~res.out.raised) =>
          (res.out.score > 0 => res.out.factors # <<>>)
    /\ ((Returned("enhanced") \/ Returned("basic")) /\ AnalysisFailed(res)) =>
          res.out.factors = <<FailureSentinel>>

\* The factor texts of the creator rules of comprehensive_analysis.
CreatorTexts ==
    {"New/low-activity creator address", "Creator has very low ETH balance"}

\* C17 as claimed: when the lookup of the creator's transaction count or
\* balance fails, comprehensive_analysis still returns a score and a factor
\* list, the failed creator signal counting for nothing.
C17_CreatorFailureNeutral ==
    (res.made /\ res.engine = "comprehensive"
         /\ (res.in.txCount.raises \/ res.in.balance.raises)) =>
        /\ ~res.out.raised
        /\ Factors(res) \cap CreatorTexts = {}

\* The rules of the table before the two supply rules.
RulesBeforeSupply(r) == SubSeq(CanonicalRules(r, TRUE, TRUE), 1, 15)

ExtremeSupplyText == "Extremely high token supply"
VeryHighSupplyText == "Very high token supply"

\* C20: a supply above 10^21 adds 0.30 and the 'extremely high' factor only;
\* a supply above 10^18 and at most 10^21 adds 0.10 and the 'very high'
\* factor only; a supply of at most 10^18 adds nothing; the two factors
\* never occur together.
C20_SupplyRulesExclusive ==
    Returned("comprehensive") =>
        LET s == res.in.total_supply
            before == RulesBeforeSupply(res)
            delta == res.out.raw - RuleSum(before, 1)
            added == SubSeq(res.out.factors, Len(RuleFactors(before, 1)) + 1,
                            Len(res.out.factors))
        IN  /\ BigLess(Supply1e21, s) =>
                  (delta = 30 /\ added = <<ExtremeSupplyText>>)
            /\ (BigLess(Supply1e18, s) /\ BigLessEq(s, Supply1e21)) =>
                  (delta = 10 /\ added = <<VeryHighSupplyText>>)
            /\ BigLessEq(s, Supply1e18) => (delta = 0 /\ added = <<>>)
            /\ ~({ExtremeSupplyText, VeryHighSupplyText} \subseteq Factors(res))

\* C20 witness: a supply of exactly 10^21 was scored as 'very high'.
C20_Witness ==
    /\ Returned("comprehensive")
    /\ res.in.total_supply = Supply1e21
    /\ VeryHighSupplyText \in Factors(res)
    /\ ExtremeSupplyText \notin Factors(res)

\* The families of a pattern list that name or symbol match.
FamiliesMatched(patterns, name, symbol) ==
    {i \in 1..Len(patterns) :
        ReSearch(patterns[i], name) \/ ReSearch(patterns[i], symbol)}

SuspiciousNameText == "Suspicious name/symbol pattern"

\* The rule table without the two name rules.
RulesBesideNames(r) ==
    LET rules == CanonicalRules(r, TRUE, TRUE)
    IN  SubSeq(rules, 1, 13) \o SubSeq(rules, 16, 17)

\* C21: however many suspicious families name and symbol match, the factor
\* list holds the 'suspicious name/symbol pattern' factor once when some
\* family matches and not at all otherwise, and the name rules together
\* contribute +0.20 for a suspicious match and -0.20 for a legitimate match,
\* each at most once.
C21_NameRulesFireOnce ==
    Returned("comprehensive") =>
        LET susp == FamiliesMatched(suspicious_patterns, res.in.name, res.in.symbol)
            legit == FamiliesMatched(legitimate_patterns, res.in.name, res.in.symbol)
            n == Cardinality({i \in DOMAIN res.out.factors :
                                 res.out.factors[i] = SuspiciousNameText})
            delta == res.out.raw - RuleSum(RulesBesideNames(res), 1)
        IN  /\ n = IF susp = {} THEN 0 ELSE 1
            /\ delta = (IF susp = {} THEN 0 ELSE 20) - (IF legit = {} THEN 0 ELSE 20)

\* C21 witness: a name and symbol of two suspicious and two legitimate
\* families were scored with one factor.
C21_Witness ==
    /\ Returned("comprehensive")
    /\ Cardinality(FamiliesMatched(suspicious_patterns, res.in.name, res.in.symbol)) >= 2
    /\ Cardinality(FamiliesMatched(legitimate_patterns, res.in.name, res.in.symbol)) >= 2
    /\ SuspiciousNameText \in Factors(res)

HighHoneypotText == "High honeypot risk detected"

\* C27: on a fetched bytecode the 'high honeypot risk' rule of
\* comprehensive_analysis fires exactly when both honeypot fingerprints occur
\* in it; one fingerprint alone does not fire it, also in a bytecode longer
\* than 50000 bytes, whose honeypot_risk is exactly 0.5; and honeypot_risk is
\* never above 0.8.
C27_HighHoneypotIffBoth ==
    (Returned("comprehensive") /\ ~res.in.getCode.raises) =>
        /\ (HighHoneypotText \in Factors(res))
              <=> Cardinality(FingerprintsFound(code)) = 2
        /\ (Cardinality(FingerprintsFound(code)) = 1 /\ CodeLen(code) > 50000)
              => res.out.analysis.honeypot_risk = 50
        /\ res.out.analysis.honeypot_risk <= 80

\* C27 witness: one fingerprint in a bytecode longer than 50000 bytes was
\* scored without the rule.
C27_Witness ==
    /\ Returned("comprehensive") /\ ~res.in.getCode.raises
    /\ Cardinality(FingerprintsFound(code)) = 1
    /\ CodeLen(code) > 50000
    /\ res.out.analysis.honeypot_risk = 50
    /\ HighHoneypotText \notin Factors(res)

----------------------------------------------------------------------------
(* comprehensive_analysis over every short list of transfer logs *)

\* The longest log list and the number of distinct recipients the lists
\* are drawn from.
MaxHolderLogs == 7
MaxRecipients == 6

\* A log of two topics, which names no recipient.
ShortLog == [topics |-> <<TransferSig, 0>>]

\* The logs that may follow the list logs: a log of two topics, a transfer
\* to a recipient the list names already, or one to the next recipient
\* (recipients are numbered in the order of their first transfer).
HolderLogsAfter(logs) ==
    LET named == Cardinality({logs[i].topics[3] :
                     i \in {j \in 1..Len(logs) : Len(logs[j].topics) >= 3}})
    IN  {ShortLog} \cup
        {TransferLog(to) : to \in 1..(IF named < MaxRecipients THEN named + 1
                                       ELSE MaxRecipients)}

\* The log lists of exactly n logs.
RECURSIVE HolderLogLists(_)
HolderLogLists(n) ==
    IF n = 0 THEN {<<>>}
    ELSE UNION {{Append(logs, l) : l \in HolderLogsAfter(logs)} :
                   logs \in HolderLogLists(n - 1)}

\* web3.eth.get_logs: every list of at most MaxHolderLogs logs, the empty
\* list included.
HolderLogsAnswers ==
    {Returns(logs) : logs \in UNION {HolderLogLists(n) : n \in 0..MaxHolderLogs}}

\* One call of comprehensive_analysis on a verified contract of a creator
\* with history, the transfer logs being any of HolderLogsAnswers.
ComprehensiveAnalysisOfLogs ==
    /\ res = None
    /\ \E holderLogs \in HolderLogsAnswers :
          LET in == [getCode |-> Returns(code),
                     verif |-> Returns([status |-> "1",
                                        result |-> << [SourceCode |-> <<"c">>] >>]),
                     holderLogs |-> holderLogs, tradingLogs |-> Returns(<<>>),
                     txCount |-> Returns(200), balance |-> Returns(Wei1Ether),
                     creator_address |-> OtherAddress,
                     name |-> <<"T","o","k","e","n","_","a","b","1","2","c","d">>,
                     symbol |-> <<"T","A","B","1","2">>,
                     total_supply |-> Big(0, 1, 0)]
          IN  res' = [made |-> TRUE, engine |-> "comprehensive", in |-> in,
                      out |-> ComprehensiveAnalysisResult(in)]
    /\ UNCHANGED <<code, cls, ca, storeVars, watchVars, limVars, lookupVars>>

InitHolders ==
    /\ code = Assemble({"renounce"}, 0)
    /\ cls = None
    /\ ca = None
    /\ res = None
    /\ StoreIdle /\ WatchIdle /\ LimIdle /\ LookupIdle

NextHolders == ComprehensiveAnalysisOfLogs

SpecHolders == InitHolders /\ [][NextHolders]_vars

(* Properties of the holder rules (SpecHolders) *)

\* The recipients the transfer logs name, and whether every log names one.
RecipientsOf(logs) ==
    {logs[i].topics[3] : i \in {j \in 1..Len(logs) : Len(logs[j].topics) >= 3}}
AllNameRecipient(logs) == \A i \in 1..Len(logs) : Len(logs[i].topics) >= 3

HighConcentrationText == "High holder concentration"
FewHoldersText == "Very few holders"

\* The holder metrics were computed (no division raised) and the
\* concentration ratio is a fraction between 0 and 1.
RatioInUnitInterval(r) ==
    /\ r.out.holder_data # EmptyDict
    /\ r.out.holder_data.concentration_ratio.den > 0
    /\ r.out.holder_data.concentration_ratio.num >= 0
    /\ r.out.holder_data.concentration_ratio.num
          <= r.out.holder_data.concentration_ratio.den

\* The ratio is exactly 1 and both holder rules fired.
FullyConcentrated(r) ==
    /\ r.out.holder_data.concentration_ratio.num
          = r.out.holder_data.concentration_ratio.den
    /\ HighConcentrationText \in Factors(r)
    /\ FewHoldersText \in Factors(r)

\* C29 as stated: for any log list the concentration ratio is in [0,1] and
\* no division by zero occurs, and when every log names a recipient and
\* there are at most 5 distinct recipients the ratio is exactly 1 and both
\* the 'high holder concentration' and the 'very few holders' rules fire.
C29_ConcentrationWithinUnit ==
    Returned("comprehensive") =>
        /\ RatioInUnitInterval(res)
        /\ (AllNameRecipient(res.in.holderLogs.data)
              /\ Cardinality(RecipientsOf(res.in.holderLogs.data)) <= 5)
             => FullyConcentrated(res)

\* C29 amended: the same, the ratio being exactly 1 when there is at least
\* one log, every log names a recipient and there are at most 5 distinct
\* recipients; with no log at all the ratio is 0 and only the 'very few
\* holders' rule fires.
C29_ConcentrationOfTransfers ==
    Returned("comprehensive") =>
        /\ RatioInUnitInterval(res)
        /\ (res.in.holderLogs.data # <<>>
              /\ AllNameRecipient(res.in.holderLogs.data)
              /\ Cardinality(RecipientsOf(res.in.holderLogs.data)) <= 5)
             => FullyConcentrated(res)
        /\ res.in.holderLogs.data = <<>> =>
              /\ res.out.holder_data.concentration_ratio.num = 0
              /\ HighConcentrationText \notin Factors(res)
              /\ FewHoldersText \in Factors(res)

\* C29 witness: five recipients, one of them named twice, every log
\* naming a recipient; the ratio is 6/6 and both rules fired.
C29_Witness ==
    /\ Returned("comprehensive")
    /\ Len(res.in.holderLogs.data) = 6
    /\ AllNameRecipient(res.in.holderLogs.data)
    /\ Cardinality(RecipientsOf(res.in.holderLogs.data)) = 5
    /\ res.out.holder_data.concentration_ratio = Ratio(6, 6)
    /\ FullyConcentrated(res)

----------------------------------------------------------------------------
(* The store: the token_launches table and store_token_launch *)

\* The chains a monitor connects to.
Chains == {"ethereum", "base"}

\* The UNIQUE(chain, contract_address) key of a row.
KeyOf(row) == <<row.chain, row.contract_address>>

\* Mutant: a plain INSERT into a table without the UNIQUE constraint.
InsertPlain(rows, row) == Append(rows, row)

\* INSERT OR REPLACE under UNIQUE(chain, contract_address): the rows in
\* conflict with the new one are deleted, then the new row is inserted.
InsertOrReplace(rows, row) ==
    SelectSeq(rows, LAMBDA r : KeyOf(r) # KeyOf(row)) \o <<row>>

\* sqlite3 (connect, execute, commit) answers or raises.
DbAnswers == {Returns("ok"), Raises(ShortErr)}

\* store_token_launch: an exception of the database is logged and dropped.
StoreTokenLaunchResult(rows, token_launch, db) ==
    IF db.raises THEN rows ELSE InsertOrReplace(rows, token_launch)

StoreAddresses == {"0xa1", "0xa2"}

\* The risk data of the token launches stored.
StoreRiskData ==
    { [risk_score |-> 0, risk_level |-> "LOW",
       risk_factors |-> <<"Contract verified on Etherscan",
                          "Source code publicly available">>,
       etherscan_verified |-> TRUE, source_code_available |-> TRUE],
      [risk_score |-> 80, risk_level |-> "CRITICAL",
       risk_factors |-> <<"Contract not verified", "Source code not available",
                          "Contract has mint function">>,
       etherscan_verified |-> FALSE, source_code_available |-> FALSE] }

TokenLaunch(chain, contract_address, risk) ==
    [chain |-> chain, contract_address |-> contract_address,
     risk_score |-> risk.risk_score, risk_level |-> risk.risk_level,
     risk_factors |-> risk.risk_factors,
     etherscan_verified |-> risk.etherscan_verified,
     source_code_available |-> risk.source_code_available]

\* The (chain, contract_address) pairs stored: two addresses on one chain,
\* one of them on the other chain too.
StoreKeys == {k \in Chains \X StoreAddresses : k # <<"base", "0xa2">>}

\* One call of store_token_launch.  hist keeps, per key, the token of the
\* last call, of the last call the database accepted and of the accepted
\* one before it.
StoreTokenLaunch ==
    \E key \in StoreKeys, risk \in StoreRiskData, db \in DbAnswers :
        LET token_launch == TokenLaunch(key[1], key[2], risk)
            k == KeyOf(token_launch)
        IN  /\ table' = StoreTokenLaunchResult(table, token_launch, db)
            /\ hist' = [hist EXCEPT ![k] =
                          [called |-> token_launch,
                           written |-> IF db.raises THEN @.written
                                       ELSE token_launch,
                           before |-> IF db.raises THEN @.before
                                      ELSE @.written]]
            /\ UNCHANGED <<analysisVars, watchVars, limVars, lookupVars>>

InitStore ==
    /\ table = <<>>
    /\ hist = [k \in StoreKeys |->
                  [called |-> None, written |-> None, before |-> None]]
    /\ AnalysisIdle /\ WatchIdle /\ LimIdle /\ LookupIdle

NextStore == StoreTokenLaunch

SpecStore == InitStore /\ [][NextStore]_vars

----------------------------------------------------------------------------
(* Properties of the store (SpecStore) *)

RowsOf(k) == {i \in 1..Len(table) : KeyOf(table[i]) = k}

\* At most one row per key, and the row of a key is the given token (no
\* row when the token is None).
HoldsExactly(k, token) ==
    /\ Cardinality(RowsOf(k)) <= 1
    /\ token = None <=> RowsOf(k) = {}
    /\ \A i \in RowsOf(k) : table[i] = token

----------------------------------------------------------------------------
(* The verification service: EtherscanAPI._make_request and                *)
(* check_etherscan_verification.  Time is counted in units of 0.1 s.       *)

\* self.rate_limit_delay = 0.2
RateLimitDelay == 2

\* The latest time, the number of coroutines sharing one EtherscanAPI and
\* the number of requests sent that the model follows.
MaxClock == 6
MaxCallers == 2
MaxSends == 3

Callers == 1..MaxCallers

CallerIdle == [pc |-> "idle", wake |-> 0]

Sent(l, via) == Append(l.sends, [at |-> clock, via |-> via])

\* time.time() advances.
Tick ==
    /\ lim # None
    /\ clock < MaxClock
    /\ clock' = clock + 1
    /\ UNCHANGED <<lim, analysisVars, storeVars, watchVars, lookupVars>>

\* _make_request up to its first suspension: with enough time since
\* last_request_time the request is sent at once, otherwise the coroutine
\* sleeps for the remainder.
MakeRequestBegin(c) ==
    /\ lim # None
    /\ lim.callers[c].pc = "idle"
    /\ Len(lim.sends) + Cardinality({d \in Callers : lim.callers[d].pc = "sleeping"})
          < MaxSends
    /\ LET time_since_last == clock - lim.last_request_time
       IN  IF time_since_last < RateLimitDelay
           THEN lim' = [lim EXCEPT
                    !.callers[c] = [pc |-> "sleeping",
                                    wake |-> clock + (RateLimitDelay - time_since_last)]]
           ELSE lim' = [lim EXCEPT
                    !.callers[c] = [pc |-> "in_flight", wake |-> 0],
                    !.sends = Sent(lim, "make_request")]
    /\ UNCHANGED <<clock, analysisVars, storeVars, watchVars, lookupVars>>

\* asyncio.sleep returns and the request is sent.
MakeRequestWake(c) ==
    /\ lim # None
    /\ lim.callers[c].pc = "sleeping"
    /\ clock >= lim.callers[c].wake
    /\ lim' = [lim EXCEPT !.callers[c] = [pc |-> "in_flight", wake |-> 0],
                          !.sends = Sent(lim, "make_request")]
    /\ UNCHANGED <<clock, analysisVars, storeVars, watchVars, lookupVars>>

\* The response arrives and last_request_time is set, or the request fails
\* and the except branch returns {}.
MakeRequestEnd(c) ==
    /\ lim # None
    /\ lim.callers[c].pc = "in_flight"
    /\ \E failed \in BOOLEAN :
          lim' = [lim EXCEPT
                    !.callers[c] = CallerIdle,
                    !.last_request_time = IF failed THEN @ ELSE clock]
    /\ UNCHANGED <<clock, analysisVars, storeVars, watchVars, lookupVars>>

\* check_etherscan_verification sends its request with no waiting.
CheckEtherscanVerification ==
    /\ lim # None
    /\ Len(lim.sends) + Cardinality({d \in Callers : lim.callers[d].pc = "sleeping"})
          < MaxSends
    /\ lim' = [lim EXCEPT !.sends = Sent(lim, "check_etherscan_verification")]
    /\ UNCHANGED <<clock, analysisVars, storeVars, watchVars, lookupVars>>

\* A client constructed some time ago: last_request_time = 0.
InitLimiter ==
    /\ clock = RateLimitDelay
    /\ lim = [last_request_time |-> 0,
              callers |-> [c \in Callers |-> CallerIdle],
              sends |-> <<>>]
    /\ AnalysisIdle /\ StoreIdle /\ WatchIdle /\ LookupIdle

NextLimiter ==
    \/ Tick
    \/ \E c \in Callers : MakeRequestBegin(c)
    \/ \E c \in Callers : MakeRequestWake(c)
    \/ \E c \in Callers : MakeRequestEnd(c)
    \/ CheckEtherscanVerification

SpecLimiter == InitLimiter /\ [][NextLimiter]_vars

----------------------------------------------------------------------------
(* Properties of the verification service (SpecLimiter) *)

\* Consecutive requests sent by the given paths are at least the minimum
\* spacing apart.
Spaced(paths) ==
    LET mine == SelectSeq(lim.sends, LAMBDA r : r.via \in paths)
    IN  \A i \in 1..(Len(mine) - 1) : mine[i + 1].at - mine[i].at >= RateLimitDelay

\* C15 as claimed: any two consecutive requests sent to the verification
\* service are at least the configured minimum spacing apart, whatever the
\* interleaving of the callers.
C15_MinimumSpacing ==
    Spaced({"make_request", "check_etherscan_verification"})

\* The same for the requests of EtherscanAPI._make_request alone.
C15_MakeRequestSpacing == Spaced({"make_request"})

----------------------------------------------------------------------------
(* The monitor processes: the start and stop handlers of enhanced_monitor, *)
(* enhanced_server and flask_server_enhanced, and the monitoring loops     *)
(* monitor_enhanced and monitor_new_tokens.                                *)
(*                                                                         *)
(* monitoring stands for monitor.monitoring and, in flask_server_enhanced, *)
(* for `analyzer is not None`.  Flask serves each request on a thread of   *)
(* its own, so a handler's test of the flag and its assignment are two     *)
(* steps.                                                                  *)

Programs == {"enhanced_monitor", "enhanced_server", "flask_server_enhanced"}

\* flask_server_enhanced starts no monitoring thread.
HasLoop(program) == program # "flask_server_enhanced"

\* The request threads and the monitoring threads the model follows.
MaxHandlers == 2
MaxLoops == 2

HandlerIdle == [pc |-> "idle", op |-> "none", saw |-> FALSE, status |-> 0]

\* A monitoring thread before its first test of the flag.
NewLoop ==
    [pc |-> "top", chain |-> 0, seen |-> "unread", loop_count |-> 0,
     failed |-> FALSE, interval |-> 0, outcomes |-> <<>>, events |-> <<>>]

\* Mutant: the start handler accepts whatever the flag.
StartRejectedNever(flag) == FALSE

\* if monitor.monitoring: return ..., 400
StartRejected(flag) == flag

\* if not monitor.monitoring: return ..., 400
StopRejected(flag) == ~flag

\* The monitoring threads started or about to be started.
LoopsCommitted ==
    Len(loops) + Cardinality({h \in DOMAIN req : req[h].pc = "start"})

\* A start request tests the flag: 400 when already running.
StartCheck(h) ==
    /\ cfg # None
    /\ req[h].pc = "idle"
    /\ HasLoop(cfg.program) => LoopsCommitted < cfg.max_loops
    /\ req' = [req EXCEPT ![h] =
                 IF StartRejected(monitoring)
                 THEN [pc |-> "idle", op |-> "start", saw |-> monitoring,
                       status |-> 400]
                 ELSE [pc |-> "start", op |-> "start", saw |-> monitoring,
                       status |-> 0]]
    /\ UNCHANGED <<cfg, monitoring, loops, tokens_found,
                   analysisVars, storeVars, limVars, lookupVars>>

\* The accepted start sets the flag, starts the monitoring thread and
\* answers 200.
StartSet(h) ==
    /\ cfg # None
    /\ req[h].pc = "start"
    /\ monitoring' = TRUE
    /\ loops' = IF HasLoop(cfg.program) THEN Append(loops, NewLoop) ELSE loops
    /\ req' = [req EXCEPT ![h].pc = "idle", ![h].status = 200]
    /\ UNCHANGED <<cfg, tokens_found, analysisVars, storeVars, limVars, lookupVars>>

\* A stop request tests the flag: 400 when not running.
StopCheck(h) ==
    /\ cfg # None
    /\ req[h].pc = "idle"
    /\ req' = [req EXCEPT ![h] =
                 IF StopRejected(monitoring)
                 THEN [pc |-> "idle", op |-> "stop", saw |-> monitoring,
                       status |-> 400]
                 ELSE [pc |-> "stop", op |-> "stop", saw |-> monitoring,
                       status |-> 0]]
    /\ UNCHANGED <<cfg, monitoring, loops, tokens_found,
                   analysisVars, storeVars, limVars, lookupVars>>

\* The accepted stop clears the flag and answers 200.
StopSet(h) ==
    /\ cfg # None
    /\ req[h].pc = "stop"
    /\ monitoring' = FALSE
    /\ req' = [req EXCEPT ![h].pc = "idle", ![h].status = 200]
    /\ UNCHANGED <<cfg, loops, tokens_found, analysisVars, storeVars, limVars, lookupVars>>


\* self.web3_clients, in the order setup_web3_clients fills it.
ChainOrder == <<"ethereum", "base">>

\* asyncio.sleep after a cycle and after a cycle that raised, in seconds.
PollInterval(program) == IF program = "enhanced_monitor" THEN 15 ELSE 30
BackoffInterval(program) == IF program = "enhanced_monitor" THEN 30 ELSE 60

\* loop_count % 5 == 0
DemoEvery == 5

\* The contract a creation transaction of the model deploys, and a bytecode
\* with the eight ERC-20 selectors.
WatchAddress == "0xa1"
DemoAddress == "0xd0"
TokenCode == Assemble(Erc20Names, 0)

\* A contract-creation transaction: its receipt lookup, the bytecode
\* deployed and the answer of the classifier's probes.
Tx(receipt, bytecode, probe) ==
    [receipt |-> receipt, code |-> bytecode, probe |-> probe]

\* What one chain answers in one cycle: not connected; the block fetch
\* raises; a block without creations; a creation whose receipt lookup
\* raises followed by a token; a contract without ERC-20 selectors; a token
\* whose probes raise.
FaultyLedger ==
    {[connected |-> FALSE, block |-> Returns(<<>>)],
     [connected |-> TRUE, block |-> Raises(ShortErr)],
     [connected |-> TRUE, block |-> Returns(<<>>)],
     [connected |-> TRUE,
      block |-> Returns(<<Tx(Raises(ShortErr), EmptyCode, Returns(Word32)),
                          Tx(Returns(WatchAddress), TokenCode, Returns(Word32))>>)],
     [connected |-> TRUE,
      block |-> Returns(<<Tx(Returns(WatchAddress), EmptyCode, Returns(Word32))>>)],
     [connected |-> TRUE,
      block |-> Returns(<<Tx(Returns(WatchAddress), TokenCode, Raises(ShortErr))>>)]}

QuietLedger == {[connected |-> TRUE, block |-> Returns(<<>>)]}

Ledger(kind) == IF kind = "quiet" THEN QuietLedger ELSE FaultyLedger

\* The risk fields of a token launch, from an engine's answer and the
\* verification flags.
RiskData(r, etherscan_verified, source_code_available) ==
    [risk_score |-> r.score, risk_level |-> r.level,
     risk_factors |-> r.factors,
     etherscan_verified |-> etherscan_verified,
     source_code_available |-> source_code_available]

\* What check_etherscan_verification returns without an API key.
NotConfigured == [verified |-> FALSE, error |-> "API not configured"]

\* The risk data analyze_real_token puts in the token launch: Etherscan not
\* configured, a creator with 200 transactions and 1 ether.
EnhancedRisk(bytecode) ==
    RiskData(AnalyzeContractRiskEnhancedResult(
                 [chainKnown |-> TRUE, etherscan_data |-> NotConfigured,
                  getCode |-> Returns(bytecode), txCount |-> Returns(200),
                  balance |-> Returns(Wei1Ether)]),
             Get(NotConfigured, "verified", FALSE),
             Get(NotConfigured, "source_code_available", FALSE))

\* The risk data analyze_new_token puts in the token launch.
BasicRisk(bytecode) ==
    RiskData(AnalyzeContractRiskResult(
                 [chainKnown |-> TRUE, getCode |-> Returns(bytecode),
                  txCount |-> Returns(200), balance |-> Returns(Wei1Ether),
                  hexPrefix |-> 0]),
             FALSE, FALSE)

\* What a cycle did with an address.
Event(chain, address, classified, stored) ==
    [chain |-> chain, address |-> address, classified |-> classified,
     stored |-> stored]

\* The most entries analyze_new_token keeps in tokens_found.
MaxTokensFound == 100

\* tokens_found.append(token_launch); analyze_new_token of enhanced_server
\* then drops the oldest entry of a list longer than MaxTokensFound.
Track(found, token_launch, program) ==
    CHOOSE kept \in {IF program = "enhanced_server" /\ Len(l) > MaxTokensFound
                        THEN Tail(l) ELSE l :
                     l \in {Append(found, token_launch)}} : TRUE

\* Store and track: store_token_launch, the database answering db, then
\* tokens_found.append.
StoreAndTrackDb(acc, token_launch, classified, db) ==
    [acc EXCEPT
        !.table = StoreTokenLaunchResult(@, token_launch, db),
        !.found = Track(@, token_launch, cfg.program),
        !.events = Append(@, Event(token_launch.chain,
                                   token_launch.contract_address,
                                   classified, TRUE))]

\* The monitoring loops run against a database that answers.
StoreAndTrack(acc, token_launch, classified) ==
    StoreAndTrackDb(acc, token_launch, classified, Returns("ok"))

\* analyze_real_token: a contract is_actual_token rejects is skipped.
AnalyzeRealTokenDb(chain, address, tx, acc, db) ==
    IF ~IsActualTokenResult(Returns(tx.code), tx.probe, tx.probe).isToken
    THEN [acc EXCEPT !.events =
             Append(@, Event(chain, address, "rejected", FALSE))]
    ELSE StoreAndTrackDb(acc, TokenLaunch(chain, address, EnhancedRisk(tx.code)),
                         "accepted", db)

AnalyzeRealToken(chain, address, tx, acc) ==
    AnalyzeRealTokenDb(chain, address, tx, acc, Returns("ok"))

\* analyze_new_token: every contract is analysed and stored.
AnalyzeNewTokenDb(chain, address, tx, acc, db) ==
    StoreAndTrackDb(acc, TokenLaunch(chain, address, BasicRisk(tx.code)),
                    "none", db)

AnalyzeNewToken(chain, address, tx, acc) ==
    AnalyzeNewTokenDb(chain, address, tx, acc, Returns("ok"))

\* monitor_enhanced, the loop over the block's transactions: a failure of
\* the receipt lookup is caught per transaction.
RECURSIVE ScanTxsEnhanced(_, _, _, _)
ScanTxsEnhanced(chain, txs, i, acc) ==
    IF i > Len(txs) THEN acc
    ELSE IF txs[i].receipt.raises
    THEN ScanTxsEnhanced(chain, txs, i + 1, [acc EXCEPT !.failed = TRUE])
    ELSE ScanTxsEnhanced(chain, txs, i + 1,
                         AnalyzeRealToken(chain, txs[i].receipt.data, txs[i], acc))

\* monitor_new_tokens, the loop over the block's transactions: a failure of
\* the receipt lookup leaves the cycle.
RECURSIVE ScanTxsBasic(_, _, _, _)
ScanTxsBasic(chain, txs, i, acc) ==
    IF i > Len(txs) THEN acc
    ELSE IF txs[i].receipt.raises
    THEN [acc EXCEPT !.failed = TRUE, !.aborted = TRUE]
    ELSE ScanTxsBasic(chain, txs, i + 1,
                      AnalyzeNewToken(chain, txs[i].receipt.data, txs[i], acc))

\* The chain's outcome after the loop over its block's transactions.
Scanned(r) ==
    [r EXCEPT !.outcomes = Append(@, IF r.aborted THEN "failed" ELSE "scanned")]

\* monitor_enhanced, one chain of the cycle: the failure of the block fetch
\* is caught per chain.
ScanChainEnhanced(chain, answer, acc) ==
    IF ~answer.connected
    THEN [acc EXCEPT !.outcomes = Append(@, "not connected")]
    ELSE IF answer.block.raises
    THEN [acc EXCEPT !.outcomes = Append(@, "failed"), !.failed = TRUE]
    ELSE Scanned(ScanTxsEnhanced(chain, answer.block.data, 1, acc))

\* monitor_new_tokens, one chain of the cycle: the failure of the block
\* fetch leaves the cycle.
ScanChainBasic(chain, answer, acc) ==
    IF ~answer.connected
    THEN [acc EXCEPT !.outcomes = Append(@, "not connected")]
    ELSE IF answer.block.raises
    THEN [acc EXCEPT !.outcomes = Append(@, "failed"), !.failed = TRUE,
                     !.aborted = TRUE]
    ELSE Scanned(ScanTxsBasic(chain, answer.block.data, 1, acc))


\* Mutant: while True.
WhileConditionAlways(flag) == TRUE

\* while self.monitoring
WhileCondition(flag) == flag

\* The top of the loop: the only place where a monitoring thread reads the
\* flag.  loop_count is followed modulo DemoEvery, and only in demo mode,
\* where it is read.
LoopTop(i) ==
    /\ i \in 1..Len(loops)
    /\ loops[i].pc = "top"
    /\ loops' = [loops EXCEPT ![i] =
          IF WhileCondition(monitoring)
          THEN [pc |-> "scan", chain |-> 1,
                seen |-> IF monitoring THEN "RUNNING" ELSE "STOPPED",
                loop_count |-> IF cfg.demo_mode
                               THEN (@.loop_count + 1) % DemoEvery
                               ELSE @.loop_count,
                failed |-> FALSE, interval |-> 0,
                outcomes |-> <<>>, events |-> <<>>]
          ELSE [pc |-> "done", chain |-> 0, seen |-> "STOPPED",
                loop_count |-> @.loop_count, failed |-> FALSE, interval |-> 0,
                outcomes |-> <<>>, events |-> <<>>]]
    /\ UNCHANGED <<cfg, monitoring, req, tokens_found,
                   analysisVars, storeVars, limVars, lookupVars>>

\* The cycle's accumulator of a monitoring thread.
Acc(l) ==
    [table |-> table, found |-> tokens_found, events |-> l.events,
     outcomes |-> l.outcomes, failed |-> l.failed, aborted |-> FALSE]

\* The thread after one chain of the cycle: the exception that leaves the
\* cycle sleeps the backoff interval; after the last chain come the demo
\* token, if due, and the sleep of the poll interval.
AfterScan(l, r) ==
    LET after == [l EXCEPT !.events = r.events, !.outcomes = r.outcomes,
                           !.failed = r.failed]
    IN  IF r.aborted
        THEN [after EXCEPT !.pc = "sleep",
                           !.interval = BackoffInterval(cfg.program)]
        ELSE IF l.chain < Len(ChainOrder)
        THEN [after EXCEPT !.chain = l.chain + 1]
        ELSE IF /\ cfg.program = "enhanced_monitor"
                /\ cfg.demo_mode
                /\ l.loop_count % DemoEvery = 0
        THEN [after EXCEPT !.pc = "demo"]
        ELSE [after EXCEPT !.pc = "sleep",
                           !.interval = PollInterval(cfg.program)]

\* The longest tokens_found the monitoring loops are followed to.
MaxTracked == 3

\* The effect of a part of the cycle on the table, tokens_found and the
\* thread.
Commit(i, r, thread) ==
    /\ Len(r.found) <= MaxTracked
    /\ table' = r.table
    /\ tokens_found' = r.found
    /\ loops' = [loops EXCEPT ![i] = thread]

\* One chain of the cycle, in the order of web3_clients.
ScanChain(chain, answer, acc) ==
    IF cfg.program = "enhanced_monitor"
    THEN ScanChainEnhanced(chain, answer, acc)
    ELSE ScanChainBasic(chain, answer, acc)

\* The effect of one chain's part of the cycle.
CommitScan(i, r) == Commit(i, r, AfterScan(loops[i], r))

\* The body of the cycle for the next chain of web3_clients.
LoopScan(i) ==
    /\ i \in 1..Len(loops)
    /\ loops[i].pc = "scan"
    /\ \E answer \in Ledger(cfg.ledger) :
          CommitScan(i, ScanChain(ChainOrder[loops[i].chain], answer,
                                  Acc(loops[i])))
    /\ UNCHANGED <<cfg, monitoring, req, hist, analysisVars, limVars, lookupVars>>

\* The thread after the demo token.
AfterDemo(l, r) ==
    [l EXCEPT !.events = r.events, !.pc = "sleep",
              !.interval = PollInterval(cfg.program)]

CommitDemo(i, r) == Commit(i, r, AfterDemo(loops[i], r))

\* Every fifth cycle in demo mode: generate_demo_token on a random chain,
\* store_token_launch, tokens_found.append.
LoopDemo(i) ==
    /\ i \in 1..Len(loops)
    /\ loops[i].pc = "demo"
    /\ \E chain \in Chains :
          CommitDemo(i, StoreAndTrack(Acc(loops[i]),
                                      TokenLaunch(chain, DemoAddress,
                                                  EnhancedRisk(EmptyCode)),
                                      "none"))
    /\ UNCHANGED <<cfg, monitoring, req, hist, analysisVars, limVars, lookupVars>>

\* asyncio.sleep returns.
LoopSleep(i) ==
    /\ i \in 1..Len(loops)
    /\ loops[i].pc = "sleep"
    /\ loops' = [loops EXCEPT ![i].pc = "top"]
    /\ UNCHANGED <<cfg, monitoring, req, tokens_found,
                   analysisVars, storeVars, limVars, lookupVars>>

\* A constructed process: monitoring = False, no thread, an empty table.
InitProcess ==
    /\ monitoring = FALSE
    /\ loops = <<>>
    /\ tokens_found = <<>>
    /\ table = <<>>
    /\ hist = <<>>
    /\ AnalysisIdle /\ LimIdle /\ LookupIdle

\* Start and stop requests on two request threads against a ledger that
\* produces empty blocks.
InitControl ==
    /\ cfg \in [made : {TRUE}, program : Programs, demo_mode : {FALSE},
                max_loops : {MaxLoops}, ledger : {"quiet"}]
    /\ req = [h \in 1..MaxHandlers |-> HandlerIdle]
    /\ InitProcess

NextControl ==
    \/ \E h \in DOMAIN req : StartCheck(h)
    \/ \E h \in DOMAIN req : StartSet(h)
    \/ \E h \in DOMAIN req : StopCheck(h)
    \/ \E h \in DOMAIN req : StopSet(h)
    \/ \E i \in 1..MaxLoops : LoopTop(i)
    \/ \E i \in 1..MaxLoops : LoopScan(i)
    \/ \E i \in 1..MaxLoops : LoopSleep(i)

SpecControl == InitControl /\ [][NextControl]_vars

\* A started thread is scheduled and its awaits return.
LoopStep(i) == LoopTop(i) \/ LoopScan(i) \/ LoopSleep(i)

SpecControlFair ==
    SpecControl /\ \A i \in 1..MaxLoops : WF_vars(LoopStep(i))

\* One monitoring thread of enhanced_monitor or enhanced_server against a
\* ledger with contract creations and failures.
InitWatch ==
    /\ cfg \in {c \in [made : {TRUE},
                       program : {"enhanced_monitor", "enhanced_server"},
                       demo_mode : BOOLEAN, max_loops : {1}, ledger : {"faulty"}] :
                   c.demo_mode => c.program = "enhanced_monitor"}
    /\ req = [h \in 1..1 |-> HandlerIdle]
    /\ InitProcess

NextWatch ==
    \/ NextControl
    \/ \E i \in 1..MaxLoops : LoopDemo(i)

SpecWatch == InitWatch /\ [][NextWatch]_vars

----------------------------------------------------------------------------
(* A long run of detections: analyze_real_token and analyze_new_token      *)
(* called once per new token contract.  The contracts are numbered in the  *)
(* order of their detection; hist keeps every call's token launch.         *)

\* The number of detections followed.
MaxDetections == 102

\* sqlite3 as the process finds it: answering, or raising on every write
\* (a database file that is locked or not writable).
DbOf(database) == IF database = "locked" THEN Raises(ShortErr) ELSE Returns("ok")

\* The next detection: a token contract at a new address.
Detection == Tx(Returns(Len(hist) + 1), TokenCode, Returns(Word32))

\* The effect of one detection on the table and tokens_found.
CommitDetection(r) ==
    /\ table' = r.table
    /\ tokens_found' = r.found
    /\ hist' = Append(hist, r.found[Len(r.found)])

\* One call of analyze_real_token of enhanced_monitor.
AnalyzeRealTokenCall ==
    /\ cfg.program = "enhanced_monitor"
    /\ Len(hist) < MaxDetections
    /\ CommitDetection(AnalyzeRealTokenDb("ethereum", Detection.receipt.data,
                                          Detection,
                                          [table |-> table, found |-> tokens_found,
                                           events |-> <<>>],
                                          DbOf(cfg.database)))
    /\ UNCHANGED <<cfg, monitoring, req, loops, analysisVars, limVars, lookupVars>>

\* One call of analyze_new_token of enhanced_server.
AnalyzeNewTokenCall ==
    /\ cfg.program = "enhanced_server"
    /\ Len(hist) < MaxDetections
    /\ CommitDetection(AnalyzeNewTokenDb("ethereum", Detection.receipt.data,
                                         Detection,
                                         [table |-> table, found |-> tokens_found,
                                          events |-> <<>>],
                                         DbOf(cfg.database)))
    /\ UNCHANGED <<cfg, monitoring, req, loops, analysisVars, limVars, lookupVars>>

InitTrack ==
    /\ cfg \in [made : {TRUE}, program : {"enhanced_monitor", "enhanced_server"},
                database : {"ok", "locked"}]
    /\ req = <<>>
    /\ InitProcess

NextTrack ==
    \/ AnalyzeRealTokenCall
    \/ AnalyzeNewTokenCall

SpecTrack == InitTrack /\ [][NextTrack]_vars

(* Properties of tokens_found (SpecTrack) *)

\* The token launch has a row in the table.
Written(token_launch) == \E j \in 1..Len(table) : table[j] = token_launch

\* The last n elements of a sequence.
LastOf(seq, n) == SubSeq(seq, Len(seq) - n + 1, Len(seq))

\* C30: tokens_found never holds more than 100 entries after any sequence
\* of detections, and every entry in it corresponds to a record that was
\* written to the store.
C30_FoundCappedAndStored ==
    /\ Len(tokens_found) <= 100
    /\ \A i \in 1..Len(tokens_found) : Written(tokens_found[i])

\* In enhanced_server the list holds the newest detections, at most 100 of
\* them, oldest first.
ServerKeepsNewest ==
    cfg.program = "enhanced_server" =>
        /\ Len(tokens_found) <= 100
        /\ tokens_found = LastOf(hist, IF Len(hist) > 100 THEN 100 ELSE Len(hist))

\* With a database that answers, every entry has its row.
StoredWhenDbAnswers ==
    cfg.database = "ok" =>
        \A i \in 1..Len(tokens_found) : Written(tokens_found[i])

----------------------------------------------------------------------------
(* The verification lookups: check_etherscan_verification of the monitor,  *)
(* which reads the chain's api_key and base_url from the configuration,    *)
(* and _check_contract_verification of the analyzer, which has the         *)
(* placeholder key in its code.                                            *)

PlaceholderKey == "YOUR_ETHERSCAN_API_KEY"

\* etherscan.networks.<chain> of the configuration: no entry, a placeholder
\* key, a key without base_url, a key and a base_url.
NetworkConfigs ==
    {[api_key |-> "", base_url |-> ""],
     [api_key |-> PlaceholderKey, base_url |-> "https://api.etherscan.io/api"],
     [api_key |-> "K1", base_url |-> ""],
     [api_key |-> "K1", base_url |-> "https://api.etherscan.io/api"]}

\* check_etherscan_verification(chain, address): sent tells whether a
\* request went to the service.
CheckEtherscanVerificationResult(network, verif) ==
    IF network.api_key = "" \/ network.base_url = ""
    THEN [sent |-> FALSE, raised |-> FALSE, data |-> NotConfigured]
    ELSE IF verif.raises
    THEN [sent |-> TRUE, raised |-> FALSE,
          data |-> [verified |-> FALSE, error |-> verif.msg]]
    ELSE IF \/ "status" \notin DOMAIN verif.data
            \/ /\ verif.data["status"] = "1"
               /\ \/ "result" \notin DOMAIN verif.data
                  \/ Len(verif.data["result"]) = 0
                  \/ "SourceCode" \notin DOMAIN verif.data["result"][1]
    THEN [sent |-> TRUE, raised |-> FALSE,
          data |-> [verified |-> FALSE, error |-> "KeyError"]]
    ELSE IF verif.data["status"] = "1"
            /\ Len(verif.data["result"][1]["SourceCode"]) > 0
    THEN [sent |-> TRUE, raised |-> FALSE,
          data |-> [verified |-> TRUE, contract_name |-> "Unknown",
                    source_code_available |-> TRUE]]
    ELSE [sent |-> TRUE, raised |-> FALSE,
          data |-> [verified |-> FALSE, source_code_available |-> FALSE]]

\* One call of check_etherscan_verification for a chain.
VerifyByMonitor ==
    /\ ~ver.made
    /\ \E chain \in Chains, verif \in VerifAnswers :
          LET out == CheckEtherscanVerificationResult(ver.networks[chain], verif)
          IN  ver' = [made |-> TRUE, networks |-> ver.networks,
                      path |-> "check_etherscan_verification", chain |-> chain,
                      api_key |-> ver.networks[chain].api_key, verif |-> verif,
                      sent |-> out.sent, raised |-> out.raised,
                      verified |-> out.data["verified"]]
    /\ UNCHANGED <<info, analysisVars, storeVars, watchVars, limVars>>

\* One call of _check_contract_verification: the request is sent with the
\* key of the code, whatever the configuration.
VerifyByAnalyzer ==
    /\ ~ver.made
    /\ \E verif \in VerifAnswers :
          ver' = [made |-> TRUE, networks |-> ver.networks,
                  path |-> "_check_contract_verification", chain |-> "ethereum",
                  api_key |-> PlaceholderKey, verif |-> verif,
                  sent |-> TRUE, raised |-> FALSE,
                  verified |-> CheckContractVerification(verif)]
    /\ UNCHANGED <<info, analysisVars, storeVars, watchVars, limVars>>

InitVerify ==
    /\ ver \in {[made |-> FALSE, networks |-> n] : n \in [Chains -> NetworkConfigs]}
    /\ info = None
    /\ AnalysisIdle /\ StoreIdle /\ WatchIdle /\ LimIdle

NextVerify == VerifyByMonitor \/ VerifyByAnalyzer

SpecVerify == InitVerify /\ [][NextVerify]_vars

----------------------------------------------------------------------------
(* Properties of the verification lookups (SpecVerify) *)

\* The service answered with a non-empty source listing.
SourceListed(verif) ==
    /\ ~verif.raises
    /\ "status" \in DOMAIN verif.data /\ verif.data["status"] = "1"
    /\ "result" \in DOMAIN verif.data /\ Len(verif.data["result"]) > 0
    /\ "SourceCode" \in DOMAIN verif.data["result"][1]
    /\ verif.data["result"][1]["SourceCode"] # <<>>

\* A key of the service is configured: has_real_keys of the monitor does
\* not count a key holding 'YOUR_'.
KeyConfigured(api_key) == api_key # "" /\ api_key # PlaceholderKey

\* C24 as claimed: contract_verified is true exactly when a request was
\* answered with a non-empty source listing; no failure raises; and without
\* a configured key no request is sent and the answer is false.
C24_VerifiedIffSourceListed ==
    ver.made =>
        /\ ~ver.raised
        /\ ver.verified <=> (ver.sent /\ SourceListed(ver.verif))
        /\ ~KeyConfigured(ver.api_key) => (~ver.sent /\ ~ver.verified)

\* The same without the configuration part.
C24_VerifiedIffAnswered ==
    ver.made =>
        /\ ~ver.raised
        /\ ver.verified <=> (ver.sent /\ SourceListed(ver.verif))

\* What check_etherscan_verification can return.
VerificationOutcomes ==
    {CheckEtherscanVerificationResult(n, v).data :
        n \in NetworkConfigs, v \in VerifAnswers}

\* The verification fields analyze_real_token stores with a token launch.
StoredFlags(etherscan_data) ==
    RiskData([score |-> 0, level |-> "LOW", factors |-> <<>>],
             Get(etherscan_data, "verified", FALSE),
             Get(etherscan_data, "source_code_available", FALSE))

\* C28: analyze_contract_risk_enhanced never rates CRITICAL a contract
\* whose verification data say verified and source_code_available, whatever
\* the bytecode, the creator's transaction count and balance and the
\* lookups that fail; and for everything check_etherscan_verification
\* returns, the record stored has etherscan_verified equal to
\* source_code_available.
C28_VerifiedNeverCritical ==
    /\ (/\ Returned("enhanced")
        /\ Get(res.in.etherscan_data, "verified", FALSE)
        /\ Get(res.in.etherscan_data, "source_code_available", FALSE)) =>
             (res.out.level # "CRITICAL" /\ res.out.score <= 70)
    /\ Returned("enhanced") => res.in.etherscan_data \in VerificationOutcomes
    /\ \A d \in VerificationOutcomes :
          StoredFlags(d).etherscan_verified = StoredFlags(d).source_code_available

\* C28 witness: a verified contract with mint and pause functions, a new
\* creator and a low balance was rated HIGH at 0.7.
C28_Witness ==
    /\ Returned("enhanced")
    /\ Get(res.in.etherscan_data, "verified", FALSE)
    /\ Get(res.in.etherscan_data, "source_code_available", FALSE)
    /\ res.out.score = 70
    /\ res.out.level = "HIGH"

----------------------------------------------------------------------------
(* Token metadata: EnhancedTokenMonitor.get_token_info *)

\* The character of an ASCII byte; "NUL" stands for '\x00'.
Chr(b) ==
    IF b = 0 THEN "NUL"
    ELSE IF b \in 65..90 THEN UpperLetters[b - 64]
    ELSE IF b \in 97..122 THEN LowerLetters[b - 96]
    ELSE IF b = 32 THEN " "
    ELSE "?"

\* bytes.decode('utf-8', errors='ignore') of ASCII bytes and bytes that
\* start no UTF-8 sequence (0x80..0xbf, 0xf8..0xff): these are dropped.
DecodeIgnore(bytes) ==
    LET kept == SelectSeq(bytes, LAMBDA b : b < 128)
    IN  [i \in 1..Len(kept) |-> Chr(kept[i])]

\* str.strip('\x00')
StripNul(text) ==
    LET solid == {i \in 1..Len(text) : text[i] # "NUL"}
    IN  IF solid = {} THEN <<>>
        ELSE SubSeq(text, CHOOSE i \in solid : \A j \in solid : i <= j,
                          CHOOSE i \in solid : \A j \in solid : j <= i)

\* str.upper() of hexadecimal digits
UpperChar(c) ==
    IF \E i \in 1..Len(LowerLetters) : LowerLetters[i] = c
    THEN UpperLetters[CHOOSE i \in 1..Len(LowerLetters) : LowerLetters[i] = c]
    ELSE c
Upper(text) == [i \in 1..Len(text) |-> UpperChar(text[i])]

\* f"Token_{contract_address[2:8]}" and f"T{contract_address[2:6].upper()}"
PlaceholderName(contract_address) ==
    <<"T","o","k","e","n","_">> \o SubSeq(contract_address, 3, 8)
PlaceholderSymbol(contract_address) ==
    <<"T">> \o Upper(SubSeq(contract_address, 3, 6))

\* The text get_token_info takes from the answer of name() or symbol():
\* unset is the value assigned before the call, least the length below
\* which the decoded text is replaced by the placeholder.
TextOfCall(call, unset, least, placeholder) ==
    IF call.raises THEN placeholder
    ELSE IF Len(call.data) > 32
    THEN LET text == StripNul(DecodeIgnore(Drop(call.data, 64)))
         IN  IF Len(text) < least THEN placeholder ELSE text
    ELSE unset

\* int.from_bytes(data, byteorder='big')
RECURSIVE IntFromBytes(_, _)
IntFromBytes(data, n) ==
    IF n = 0 THEN 0 ELSE IntFromBytes(data, n - 1) * 256 + data[n]

\* The decimals get_token_info takes from the answer of decimals().
DecimalsOfCall(call) ==
    IF call.raises THEN 18
    ELSE IF Len(call.data) = 32
    THEN LET decimals == IntFromBytes(call.data, 32)
         IN  IF decimals > 50 THEN 18 ELSE decimals
    ELSE 18

\* get_token_info(web3, contract_address)
GetTokenInfoResult(contract_address, nameCall, symbolCall, decimalsCall) ==
    [raised |-> FALSE,
     name |-> TextOfCall(nameCall, <<"U","n","k","n","o","w","n">>, 2,
                         PlaceholderName(contract_address)),
     symbol |-> TextOfCall(symbolCall, <<"U","N","K">>, 1,
                           PlaceholderSymbol(contract_address)),
     decimals |-> DecimalsOfCall(decimalsCall)]

\* The ABI encoding of a string: offset word, length word, the bytes padded
\* with zeros to 32.
AbiString(bytes) ==
    [i \in 1..96 |-> IF i = 32 THEN 32
                     ELSE IF i = 64 THEN Len(bytes)
                     ELSE IF i > 64 /\ i - 64 <= Len(bytes) THEN bytes[i - 64]
                     ELSE 0]

\* A 32-byte word holding a small number.
Word(n) == [i \in 1..32 |-> IF i = 32 THEN n ELSE 0]

\* The answers of name() and symbol(): a failure, no data, one word, and
\* the strings "AB", "A", "" and the one byte 0xff.
StringCallAnswers ==
    {Raises(ShortErr), Returns(<<>>), Returns(Word(0)),
     Returns(AbiString(<<65, 66>>)), Returns(AbiString(<<65>>)),
     Returns(AbiString(<<>>)), Returns(AbiString(<<255>>))}

\* The answers of decimals(): a failure, no data, 6, 50 and 51.
DecimalsCallAnswers ==
    {Raises(ShortErr), Returns(<<>>), Returns(Word(6)), Returns(Word(50)),
     Returns(Word(51))}

\* The address of the token: 0xab12cd followed by zeros.
InfoAddress ==
    <<"0","x","a","b","1","2","c","d">> \o [i \in 1..34 |-> "0"]

\* One call of get_token_info.
GetTokenInfo ==
    /\ info = None
    /\ \E nameCall \in StringCallAnswers, symbolCall \in StringCallAnswers,
          decimalsCall \in DecimalsCallAnswers :
          info' = [made |-> TRUE, contract_address |-> InfoAddress,
                   nameCall |-> nameCall, symbolCall |-> symbolCall,
                   decimalsCall |-> decimalsCall,
                   out |-> GetTokenInfoResult(InfoAddress, nameCall, symbolCall,
                                              decimalsCall)]
    /\ UNCHANGED <<ver, analysisVars, storeVars, watchVars, limVars>>

InitInfo ==
    /\ LookupIdle
    /\ AnalysisIdle /\ StoreIdle /\ WatchIdle /\ LimIdle

NextInfo == GetTokenInfo

SpecInfo == InitInfo /\ [][NextInfo]_vars

----------------------------------------------------------------------------
(* Properties of get_token_info (SpecInfo) *)

\* The string a call returned, decoded.
Decoded(call) == StripNul(DecodeIgnore(Drop(call.data, 64)))

\* The call answered with enough data for a string of at least 2 characters.
Usable(call) ==
    /\ ~call.raises
    /\ Len(call.data) > 64
    /\ Len(Decoded(call)) >= 2

\* C25 as claimed: get_token_info never raises; name and symbol are the
\* decoded string when the call answered a string of at least 2 characters
\* and the placeholder derived from the address in every other case.
C25_DecodedOrPlaceholder ==
    info.made =>
        /\ ~info.out.raised
        /\ info.out.name = IF Usable(info.nameCall) THEN Decoded(info.nameCall)
                           ELSE <<"T","o","k","e","n","_","a","b","1","2","c","d">>
        /\ info.out.symbol = IF Usable(info.symbolCall) THEN Decoded(info.symbolCall)
                             ELSE <<"T","A","B","1","2">>

----------------------------------------------------------------------------
(* Properties of the start and stop handlers (SpecControl) *)

\* The step of request thread h, if this step is one.
HandlerStep(h) == req'[h] # req[h]

\* A request that tests the flag in this step.
Tests(h, op) == req[h].pc = "idle" /\ req'[h].op = op

\* What the handlers do to the flag and answer, by the state they find.
WatcherTransition(h) ==
    /\ Tests(h, "start") /\ monitoring
          => req'[h].status = 400 /\ req'[h].pc = "idle" /\ monitoring'
    /\ Tests(h, "stop") /\ ~monitoring
          => req'[h].status = 400 /\ req'[h].pc = "idle" /\ ~monitoring'
    /\ Tests(h, "start") /\ ~monitoring => req'[h].pc = "start"
    /\ Tests(h, "stop") /\ monitoring => req'[h].pc = "stop"
    /\ req[h].pc = "start" => req'[h].status = 200 /\ monitoring'
    /\ req[h].pc = "stop" => req'[h].status = 200 /\ ~monitoring'

\* C11: a start that finds the watcher RUNNING is rejected and leaves it
\* RUNNING; a stop that finds it STOPPED is rejected and leaves it STOPPED; a
\* start that finds it STOPPED is accepted and moves it to RUNNING, a stop
\* that finds it RUNNING is accepted and returns it to STOPPED; the watcher
\* is always in exactly one of the two states.
C11_WatcherTransitions ==
    /\ [](monitoring \in BOOLEAN)
    /\ [][\A h \in DOMAIN req : HandlerStep(h) => WatcherTransition(h)]_vars

\* A start was rejected while RUNNING and a later stop returned the watcher
\* to STOPPED.
C11_Witness ==
    /\ ~monitoring
    /\ \E h, g \in DOMAIN req :
          /\ req[h].op = "start" /\ req[h].status = 400 /\ req[h].saw
          /\ req[g].op = "stop" /\ req[g].status = 200 /\ req[g].pc = "idle"

\* The monitoring threads that are in a cycle: scanning or asleep.
ActiveLoops == {i \in 1..Len(loops) : loops[i].pc \in {"scan", "sleep"}}

\* C26: for every interleaving of start requests, stop requests and loop
\* steps, at most one monitoring loop is active per monitor.
C26_SingleActiveLoop == Cardinality(ActiveLoops) <= 1

----------------------------------------------------------------------------
(* Properties of the monitoring loops under start and stop (SpecControlFair) *)

\* The flag as a monitoring thread reads it.
FlagState(flag) == IF flag THEN "RUNNING" ELSE "STOPPED"

\* The step of monitoring thread i, if this step is one.
ThreadStep(i) == i \in 1..Len(loops) /\ loops'[i] # loops[i]

\* A thread that resumes from a suspension point has read the flag.
ObservesAtEachSuspension ==
    \A i \in 1..MaxLoops :
        ThreadStep(i) /\ loops[i].pc \in {"scan", "sleep"}
            => loops'[i].seen = FlagState(monitoring)

\* A cycle begins only when the flag read at the top of the loop is RUNNING,
\* and a thread ends only there, when the flag read is STOPPED: the cycle in
\* flight, its sleep included, runs to its end.
ObservesAtTopOnly ==
    \A i \in 1..MaxLoops :
        ThreadStep(i) =>
            /\ loops[i].pc = "top" /\ monitoring => loops'[i].pc = "scan"
            /\ loops[i].pc = "top" /\ ~monitoring => loops'[i].pc = "done"
            /\ loops[i].pc = "top" => loops'[i].seen = FlagState(monitoring)
            /\ loops[i].pc \in {"scan", "sleep"} =>
                  /\ loops'[i].pc \in {"scan", "sleep", "top"}
                  /\ loops'[i].seen = loops[i].seen

\* Once the flag is STOPPED, a started thread ends unless the flag is set
\* to RUNNING again.
StopTerminates ==
    \A i \in 1..MaxLoops :
        (i <= Len(loops) /\ ~monitoring)
            ~> (monitoring \/ (i <= Len(loops) /\ loops[i].pc = "done"))

\* C12 as claimed: the loop reads the flag at the top of each cycle and at
\* each suspension point; after a stop with no later start the cycle in
\* flight completes, no further cycle begins and the loop terminates.
C12_Original ==
    /\ [][ObservesAtEachSuspension]_vars
    /\ [][ObservesAtTopOnly]_vars
    /\ StopTerminates

\* C12 amended: the loop reads the flag at the top of each cycle only; after
\* a stop with no later start the cycle in flight, its sleep included,
\* completes, no further cycle begins and the loop terminates.
C12_CooperativeCancellation ==
    /\ [][ObservesAtTopOnly]_vars
    /\ StopTerminates

\* An accepted stop has cleared the flag while one thread's cycle is in
\* flight, and another thread has ended on reading STOPPED.
C12_Witness ==
    /\ ~monitoring
    /\ \E i \in 1..Len(loops) :
          loops[i].pc \in {"scan", "sleep"} /\ loops[i].seen = "RUNNING"
    /\ \E i \in 1..Len(loops) : loops[i].pc = "done"
    /\ \E h \in DOMAIN req : req[h].op = "stop" /\ req[h].status = 200

----------------------------------------------------------------------------
(* Properties of a monitoring loop against a failing ledger (SpecWatch) *)

\* C13 as claimed: a failure inside a cycle never ends the loop, which ends
\* only on a STOPPED flag, and after a failed cycle the loop sleeps the
\* backoff interval, not the poll interval.
C13_FailedCycleBacksOff ==
    \A i \in 1..Len(loops) :
        /\ loops[i].pc = "done" => loops[i].seen = "STOPPED"
        /\ loops[i].pc = "sleep" /\ loops[i].failed
              => loops[i].interval = BackoffInterval(cfg.program)

\* C18 as claimed: whatever fails on one chain, every configured chain is
\* scanned in the cycle and the cycle sleeps the poll interval.
C18_ChainsIndependent ==
    \A i \in 1..Len(loops) :
        loops[i].pc = "sleep" /\ cfg.program = "enhanced_server"
            => /\ Len(loops[i].outcomes) = Len(ChainOrder)
               /\ loops[i].interval = PollInterval(cfg.program)

\* C19 as claimed: a token launch is stored and tracked only for an address
\* the classifier accepted in that cycle.
C19_StoredOnlyIfAccepted ==
    \A i \in 1..Len(loops) :
        \A k \in DOMAIN loops[i].events :
            loops[i].events[k].stored
                => loops[i].events[k].classified = "accepted"

====
